---- MODULE Spec2Model ----
(***************************************************************************)
(* Project LANTERN: thread reconstruction (agents/threading_agent.py) and  *)
(* pipeline orchestration (src/pipeline.py).                               *)
(*                                                                         *)
(* Python strings are sequences of one-character strings, so that strip,   *)
(* concatenation and replace are computed and not assumed.  A Python value *)
(* is a record [t, s, n]: t is the type tag, s the characters of a str,    *)
(* n the number of an int or of an integer-valued float.                   *)
(***************************************************************************)
EXTENDS Integers, Sequences, FiniteSets, TLC

VARIABLES
    \* ThreadingAgent: its configuration, and one call of group_sequences
    enable_threads, \* ThreadingAgentConfig.enable_threads
    rows,           \* the argument of group_sequences
    ordered,        \* its result
    gpc,            \* "ready" before the call, "returned" after it
    \* the arguments of run_pipeline and the file system it works on
    manifest,       \* the rows of manifest_df
    columns,        \* manifest_df.columns
    cfg,            \* ocr_cache_dir, use_ocr_cache, save_ocr_cache, export_*
    ocr_agent,      \* image path -> the outcomes run_page can have on it
    disk,           \* the outcomes a write of a cache file can have
    cache,          \* cache file name -> content of the file
    exported,       \* pages.jsonl and sequences.jsonl
    \* the locals of run_pipeline
    pc,             \* the place of the run in run_pipeline
    idx,            \* the position of the running loop
    ocr_outputs,    \* rel_path -> OCR record
    counts,         \* num_from_cache, num_fresh_ocr
    sequences_map,
    enriched_pages,
    sequence_summaries,
    \* history: what the OCR phase did for each row it worked on
    ocr_log,
    \* history: the layers each enriched page was merged from
    enrich_log,
    \* history: the texts collected for each sequence, and whether
    \* summarize_sequence was called with them
    summary_log,
    raised,         \* the exception that ended the run, or "none"
    \* history: the cache as the run found it, and what the run before
    \* this one returned
    history,
    \* the JSONL writers and loaders, and the page table of the search index
    jrecords,       \* the records given to the writer
    jsonl_file,     \* the characters of the file, or that there is none
    loaded,         \* the list the loader returned
    page_df,        \* the table _build_page_dataframe made of that list
    jpc             \* "write", "load", "loaded", "built", or the call that
                    \* raised

gvars == <<rows, ordered, gpc>>
pvars == <<manifest, columns, cfg, ocr_agent, disk, cache, exported, pc, idx,
           ocr_outputs, counts, sequences_map, enriched_pages,
           sequence_summaries, ocr_log, enrich_log, summary_log, raised,
           history>>
jvars == <<jrecords, jsonl_file, loaded, page_df, jpc>>
vars == <<enable_threads, gvars, pvars, jvars>>

(***************************************************************************)
(* Bounds of the model.                                                    *)
(***************************************************************************)
MaxRows == 2
MaxThreadRows == 7
MaxManifest == 2

(***************************************************************************)
(* Python values.                                                          *)
(***************************************************************************)
PyNone == [t |-> "none", s |-> <<>>, n |-> 0]
PyNaN == [t |-> "nan", s |-> <<>>, n |-> 0]
PyStr(cs) == [t |-> "str", s |-> cs, n |-> 0]
PyInt(k) == [t |-> "int", s |-> <<>>, n |-> k]
PyFloat(k) == [t |-> "float", s |-> <<>>, n |-> k]
\* marks a key that the dict does not hold; never a value of a dict
Absent == [t |-> "absent", s |-> <<>>, n |-> 0]

Whitespace == {" ", "\t", "\n"}
DigitChars == <<"0", "1", "2", "3", "4", "5", "6", "7", "8", "9">>

\* not cs.strip()
IsBlank(cs) == \A i \in 1..Len(cs) : cs[i] \in Whitespace

RECURSIVE IntToChars(_)
IntToChars(k) ==
    IF k < 10 THEN <<DigitChars[k + 1]>>
    ELSE IntToChars(k \div 10) \o <<DigitChars[(k % 10) + 1]>>

\* str(v) and the formatting of v in an f-string
ToStr(v) ==
    CASE v.t = "none" -> <<"N", "o", "n", "e">>
      [] v.t = "str" -> v.s
      [] v.t = "int" -> IntToChars(v.n)
      [] v.t = "float" -> IntToChars(v.n) \o <<".", "0">>
      [] v.t = "nan" -> <<"n", "a", "n">>

\* dict.get(k, default)
RowGet(row, k, default) == IF k \in DOMAIN row THEN row[k] ELSE default

(***************************************************************************)
(* agents/threading_agent.py                                               *)
(***************************************************************************)
NoStripIsMissing(seq_id) ==
    \/ seq_id.t = "none"
    \/ seq_id.t = "str" /\ seq_id.s = <<>>
    \/ seq_id.t = "nan"

_sequence_id_is_missing(seq_id) ==
    \/ seq_id.t = "none"
    \/ seq_id.t = "str" /\ IsBlank(seq_id.s)
    \/ seq_id.t = "nan"

SingletonPrefix == <<"s", "i", "n", "g", "l", "e", "t", "o", "n", ":", ":">>
UnknownPath == PyStr(<<"<", "u", "n", "k", "n", "o", "w", "n", ">">>)
SeqPrefix == <<"s", "e", "q", "_">>

\* the key under which the loop of group_sequences files a row
SequenceKey(row) ==
    LET seq_id == RowGet(row, "sequence_id", PyNone)
        file_path == RowGet(row, "file_path", UnknownPath)
    IN  IF _sequence_id_is_missing(seq_id)
        THEN SingletonPrefix \o ToStr(file_path)
        ELSE ToStr(seq_id)

\* A dict is a sequence of entries [key, items] in insertion order.
DictKeys(d) == {d[i].key : i \in 1..Len(d)}
DictIndex(d, k) == CHOOSE i \in 1..Len(d) : d[i].key = k
DictGet(d, k) == d[DictIndex(d, k)].items

\* d[k] = items
DictSet(d, k, items) ==
    IF k \in DictKeys(d)
    THEN [d EXCEPT ![DictIndex(d, k)].items = items]
    ELSE Append(d, [key |-> k, items |-> items])

OverwriteAppend(d, k, i) == DictSet(d, k, <<i>>)

\* grouped[k].append(row), grouped a defaultdict(list); a row is named by
\* its position in the input list
DictAppend(d, k, i) ==
    IF k \in DictKeys(d)
    THEN DictSet(d, k, Append(DictGet(d, k), i))
    ELSE DictSet(d, k, <<i>>)

RECURSIVE GroupRows(_, _, _)
GroupRows(rs, i, grouped) ==
    IF i > Len(rs) THEN grouped
    ELSE GroupRows(rs, i + 1, DictAppend(grouped, SequenceKey(rs[i]), i))

\* float(str): digit strings and "nan" parse, anything else raises
AllDigits(cs) ==
    /\ Len(cs) > 0
    /\ \A i \in 1..Len(cs) : \E d \in 1..10 : DigitChars[d] = cs[i]

DigitValue(c) == (CHOOSE d \in 1..10 : DigitChars[d] = c) - 1

RECURSIVE CharsToInt(_)
CharsToInt(cs) ==
    IF cs = <<>> THEN 0
    ELSE 10 * CharsToInt(SubSeq(cs, 1, Len(cs) - 1)) + DigitValue(cs[Len(cs)])

Sentinel == 1000000000

\* a float: nan, or the number n
FloatNaN == [nan |-> TRUE, n |-> 0]
FloatOf(k) == [nan |-> FALSE, n |-> k]

\* sort_key(r): float(val), and 1e9 when float(val) raises
sort_key(r) ==
    LET val == RowGet(r, "sequence_order", PyNone)
    IN  CASE val.t = "int" -> FloatOf(val.n)
          [] val.t = "float" -> FloatOf(val.n)
          [] val.t = "nan" -> FloatNaN
          [] val.t = "str" /\ AllDigits(val.s) -> FloatOf(CharsToInt(val.s))
          [] val.t = "str" /\ val.s = <<"n", "a", "n">> -> FloatNaN
          [] OTHER -> FloatOf(Sentinel)

\* a < b on floats: False whenever one side is nan
FloatLt(a, b) == ~a.nan /\ ~b.nan /\ a.n < b.n

(***************************************************************************)
(* sorted(items, key=sort_key) as list.sort computes it for fewer than 64  *)
(* items: count_run finds the leading run (a strictly descending one is    *)
(* reversed), binarysort inserts the remaining items one by one.  ks is    *)
(* the list of keys, xs the list of positions into ks being sorted.        *)
(***************************************************************************)
RECURSIVE RunEnd(_, _, _, _)
RunEnd(ks, xs, i, descending) ==
    IF i > Len(xs) THEN Len(xs)
    ELSE IF FloatLt(ks[xs[i]], ks[xs[i - 1]]) = descending
         THEN RunEnd(ks, xs, i + 1, descending)
         ELSE i - 1

Reverse(xs) == [i \in 1..Len(xs) |-> xs[Len(xs) + 1 - i]]

RECURSIVE BinarySearch(_, _, _, _, _)
BinarySearch(ks, xs, pivot, l, r) ==
    IF l >= r THEN l
    ELSE LET p == l + ((r - l) \div 2)
         IN  IF FloatLt(ks[pivot], ks[xs[p]])
             THEN BinarySearch(ks, xs, pivot, l, p)
             ELSE BinarySearch(ks, xs, pivot, p + 1, r)

InsertAt(xs, l, x) == SubSeq(xs, 1, l - 1) \o <<x>> \o SubSeq(xs, l, Len(xs))

RECURSIVE BinarySort(_, _, _)
BinarySort(ks, xs, start) ==
    IF start > Len(xs) THEN xs
    ELSE LET l == BinarySearch(ks, xs, xs[start], 1, start)
             moved == InsertAt(SubSeq(xs, 1, start - 1), l, xs[start])
                          \o SubSeq(xs, start + 1, Len(xs))
         IN  BinarySort(ks, moved, start + 1)

ListSort(ks, xs) ==
    IF Len(xs) < 2 THEN xs
    ELSE LET descending == FloatLt(ks[xs[2]], ks[xs[1]])
             run == RunEnd(ks, xs, 3, descending)
             head == IF descending THEN Reverse(SubSeq(xs, 1, run))
                     ELSE SubSeq(xs, 1, run)
         IN  BinarySort(ks, head \o SubSeq(xs, run + 1, Len(xs)), run + 1)

\* the loop "for seq_id, items in grouped.items()"
SortGroups(rs, grouped) ==
    LET ks == [i \in 1..Len(rs) |-> sort_key(rs[i])]
    IN  [g \in 1..Len(grouped) |->
            [key |-> grouped[g].key, items |-> ListSort(ks, grouped[g].items)]]

\* str(row.get("file_path", f"seq_{idx}")), idx counting from 0
NoThreadKey(row, i) ==
    ToStr(RowGet(row, "file_path", PyStr(SeqPrefix \o IntToChars(i - 1))))

\* the dict comprehension of the no-thread mode
RECURSIVE NoThreadRows(_, _, _)
NoThreadRows(rs, i, d) ==
    IF i > Len(rs) THEN d
    ELSE NoThreadRows(rs, i + 1, DictSet(d, NoThreadKey(rs[i], i), <<i>>))

group_sequences(rs, threads) ==
    IF rs = <<>> THEN <<>>
    ELSE IF ~threads THEN NoThreadRows(rs, 1, <<>>)
    ELSE SortGroups(rs, GroupRows(rs, 1, <<>>))

(***************************************************************************)
(* src/pipeline.py: helpers.  A dict with string keys is a function from   *)
(* its keys to Python values.                                              *)
(***************************************************************************)
EmptyDict == [k \in {} |-> PyNone]
PyList(len) == [t |-> "list", s |-> <<>>, n |-> len]

\* bool(v)
Truthy(v) ==
    CASE v.t = "none" -> FALSE
      [] v.t = "str" -> v.s # <<>>
      [] v.t \in {"int", "float", "list"} -> v.n # 0
      [] OTHER -> TRUE

\* a or b
PyOr(a, b) == IF Truthy(a) THEN a ELSE b

\* d[k] = v
Put(d, k, v) == [x \in DOMAIN d \cup {k} |-> IF x = k THEN v ELSE d[x]]
\* d.setdefault(k, v)
SetDefault(d, k, v) == IF k \in DOMAIN d THEN d ELSE Put(d, k, v)
MergeKeepsFirst(a, b) ==
    [x \in DOMAIN a \cup DOMAIN b |-> IF x \in DOMAIN a THEN a[x] ELSE b[x]]

\* {**a, **b}
Merge(a, b) ==
    [x \in DOMAIN a \cup DOMAIN b |-> IF x \in DOMAIN b THEN b[x] ELSE a[x]]

RECURSIVE LStrip(_)
LStrip(cs) ==
    IF cs # <<>> /\ Head(cs) \in Whitespace THEN LStrip(Tail(cs)) ELSE cs

RECURSIVE RStrip(_)
RStrip(cs) ==
    IF cs # <<>> /\ cs[Len(cs)] \in Whitespace
    THEN RStrip(SubSeq(cs, 1, Len(cs) - 1)) ELSE cs

\* cs.strip()
Strip(cs) == RStrip(LStrip(cs))

RECURSIVE ReplaceSlash(_)
ReplaceSlash(cs) ==
    IF cs = <<>> THEN <<>>
    ELSE (IF Head(cs) = "/" THEN <<"_", "_">> ELSE <<Head(cs)>>)
             \o ReplaceSlash(Tail(cs))

_cache_key_for_path(rel_path) ==
    ReplaceSlash(rel_path) \o <<".", "j", "s", "o", "n">>

(***************************************************************************)
(* The cache directory.  cfg.cache_dir is "none" when ocr_cache_dir is     *)
(* None, "dir" when it names a directory (or a path mkdir can create),     *)
(* "blocked" when it names a path that is no directory and cannot be made  *)
(* one (a regular file is in the way, or its parent is read-only).  cache  *)
(* maps the names of the files of the directory to their content:          *)
(*   "unstatable"  stat() fails on the name with an error other than "not  *)
(*                 found" (the name is too long, the directory cannot be   *)
(*                 searched): Path.exists() raises OSError up to Python    *)
(*                 3.12 and answers False from 3.13 on                     *)
(*   "unloadable"  open() or json.load() raises on it                      *)
(*   "null"        the JSON value null                                     *)
(*   "array"       a JSON value that is no object, such as []              *)
(*   "object"      a JSON object, rec                                      *)
(***************************************************************************)
Unstatable == [kind |-> "unstatable", rec |-> EmptyDict]
Unloadable == [kind |-> "unloadable", rec |-> EmptyDict]
JsonNull == [kind |-> "null", rec |-> EmptyDict]
JsonArray == [kind |-> "array", rec |-> EmptyDict]
JsonObject(rec) == [kind |-> "object", rec |-> rec]

\* what _load_ocr_from_cache returns: None, or the value json.load read
LoadedNone == [kind |-> "none", rec |-> EmptyDict]

_load_ocr_from_cache(files, rel_path) ==
    LET cache_file == _cache_key_for_path(rel_path)
    IN  IF cache_file \notin DOMAIN files THEN LoadedNone
        ELSE CASE files[cache_file].kind = "unstatable" -> LoadedNone
               [] files[cache_file].kind = "unloadable" -> LoadedNone
               [] files[cache_file].kind = "null" -> LoadedNone
               [] OTHER -> files[cache_file]

\* the outcomes of the try block of _save_ocr_to_cache, once mkdir passed:
\* the record is written, or open() raises and the file stays as it was,
\* or json.dump raises and leaves the file cut off
WriteOutcomes == {"written", "open_failed", "dump_failed"}

SaveKeepsOldEntry(files, rel_path, record, outcome) ==
    LET cache_file == _cache_key_for_path(rel_path)
    IN  IF cache_file \in DOMAIN files THEN files
        ELSE CASE outcome = "written" ->
                      Put(files, cache_file, JsonObject(record))
               [] outcome = "open_failed" -> files
               [] outcome = "dump_failed" -> Put(files, cache_file, Unloadable)

_save_ocr_to_cache(files, rel_path, record, outcome) ==
    LET cache_file == _cache_key_for_path(rel_path)
    IN  CASE outcome = "written" -> Put(files, cache_file, JsonObject(record))
          [] outcome = "open_failed" -> files
          [] outcome = "dump_failed" -> Put(files, cache_file, Unloadable)

\* any(isinstance(cached.get(k), str) and cached[k].strip() for k in ...)
has_text(cached) ==
    \E k \in {"clean_text", "raw_text", "ocr_text"} :
        /\ k \in DOMAIN cached
        /\ cached[k].t = "str"
        /\ ~IsBlank(cached[k].s)

ErrorOnlyIsBad(cached) == Truthy(RowGet(cached, "error", PyNone))

\* cached.get("error") and not has_text
IsBadCached(cached) ==
    Truthy(RowGet(cached, "error", PyNone)) /\ ~has_text(cached)

(***************************************************************************)
(* agents/ocr_agent.py: OCRAgent.run_page never raises.  What it returns   *)
(* depends on the image file and on the backend:                           *)
(*   "not_found"  the image file does not exist                            *)
(*   "text"       the backend returned the text of the page                *)
(*   "fallback"   the backend raised, _mock_response carries the error     *)
(***************************************************************************)
OcrOutcomes == {"not_found", "text", "fallback"}

RECURSIVE Basename(_)
Basename(cs) ==
    IF \E i \in 1..Len(cs) : cs[i] = "/"
    THEN Basename(Tail(cs)) ELSE cs

OcrRecord(raw, clean, error, engine) ==
    [raw_text |-> PyStr(raw), clean_text |-> PyStr(clean),
     ocr_text |-> PyStr(raw), ocr_text_length |-> PyInt(Len(clean)),
     error |-> error, engine |-> PyStr(engine)]

PageText == <<"T">>
MockText(image_path) == <<"M", " ">> \o Basename(image_path)
NotFoundError == PyStr(<<"n", "o", " ", "f", "i", "l", "e">>)
BackendError == PyStr(<<"e", "r", "r">>)

run_page(image_path, outcome) ==
    CASE outcome = "not_found" ->
             OcrRecord(<<>>, <<>>, NotFoundError, <<"n", "o", "n", "e">>)
      [] outcome = "text" ->
             OcrRecord(PageText, PageText, PyNone, <<"g", "e", "m">>)
      [] outcome = "fallback" ->
             OcrRecord(MockText(image_path), MockText(image_path),
                       BackendError, <<"m", "o", "c", "k">>)

(***************************************************************************)
(* run_pipeline, phase 1: what one pass of the OCR loop decides.           *)
(***************************************************************************)
\* the cached record is taken as the row's OCR record
UsesCached(cached) == cached.kind = "object" /\ ~IsBadCached(cached.rec)

\* ocr_outputs[rel_path] = ocr_record or {}
StoreOverwritesNothing(outputs, rel_path, ocr_record) ==
    IF rel_path \in DOMAIN outputs THEN outputs
    ELSE Put(outputs, rel_path, ocr_record)

StoreRecord(outputs, rel_path, ocr_record) ==
    Put(outputs, rel_path, ocr_record)

CountBoth(c, source) ==
    [num_from_cache |-> c.num_from_cache + 1,
     num_fresh_ocr |-> c.num_fresh_ocr + 1]

\* num_from_cache += 1, or num_fresh_ocr += 1
CountRow(c, source) ==
    IF source = "cache"
    THEN [c EXCEPT !.num_from_cache = @ + 1]
    ELSE [c EXCEPT !.num_fresh_ocr = @ + 1]

(***************************************************************************)
(* agents/extraction_agent.py without a backend client: the deterministic  *)
(* heuristic the agent falls back on.                                      *)
(***************************************************************************)
max_summary_chars == 600
SummaryWords == 80

Take(cs, k) == SubSeq(cs, 1, IF Len(cs) < k THEN Len(cs) ELSE k)

\* text.split(): the words between runs of whitespace
RECURSIVE Split(_, _, _)
Split(cs, word, words) ==
    IF cs = <<>>
    THEN (IF word = <<>> THEN words ELSE Append(words, word))
    ELSE IF Head(cs) \in Whitespace
         THEN Split(Tail(cs), <<>>,
                    IF word = <<>> THEN words ELSE Append(words, word))
         ELSE Split(Tail(cs), Append(word, Head(cs)), words)

\* sep.join(pieces)
RECURSIVE Join(_, _)
Join(pieces, sep) ==
    IF pieces = <<>> THEN <<>>
    ELSE IF Len(pieces) = 1 THEN pieces[1]
    ELSE pieces[1] \o sep \o Join(Tail(pieces), sep)

UpperChars == {"T", "M"}
\* w.istitle(), on the characters the model's texts are made of
IsTitle(w) ==
    /\ w # <<>> /\ w[1] \in UpperChars
    /\ \A i \in 2..Len(w) : w[i] \notin UpperChars

_empty_result ==
    [page_summary |-> PyStr(<<>>), entities |-> PyList(0),
     num_entities |-> PyInt(0), search_text |-> PyStr(<<>>)]

_heuristic_result(text) ==
    LET words == Split(text, <<>>, <<>>)
        summary == Join(Take(words, SummaryWords), <<" ">>)
        ents == Cardinality({i \in 1..Len(words) : IsTitle(words[i])})
    IN  [page_summary |-> PyStr(Take(summary, max_summary_chars)),
         entities |-> PyList(ents),
         num_entities |-> PyInt(ents),
         search_text |-> PyStr(Take(summary, max_summary_chars))]

\* clean_text is a str
extract_page(clean_text) ==
    IF clean_text.s = <<>> THEN _empty_result
    ELSE _heuristic_result(clean_text.s)

ParagraphBreak == <<"\n", "\n">>

summarize_sequence(texts) ==
    LET joined == Join(SelectSeq(texts, LAMBDA t : t # <<>>), ParagraphBreak)
        summary == Take(joined, max_summary_chars)
    IN  [sequence_summary |-> PyStr(summary),
         sequence_search_text |-> PyStr(summary)]

(***************************************************************************)
(* run_pipeline, phases 3 and 4.                                           *)
(***************************************************************************)
\* the pieces of a search text: the strings among vs that are not blank,
\* stripped
RECURSIVE Pieces(_)
Pieces(vs) ==
    IF vs = <<>> THEN <<>>
    ELSE (IF Head(vs).t = "str" /\ ~IsBlank(Head(vs).s)
          THEN <<Strip(Head(vs).s)>> ELSE <<>>) \o Pieces(Tail(vs))

NullWhenEmpty(enriched) ==
    LET ocr_text == PyOr(RowGet(enriched, "ocr_text", PyNone),
                         PyOr(RowGet(enriched, "clean_text", PyNone),
                              RowGet(enriched, "raw_text", PyNone)))
        pieces == Pieces(<<RowGet(enriched, "search_text", PyNone),
                           RowGet(enriched, "notes", PyNone), ocr_text>>)
    IN  IF pieces = <<>> THEN PyNone
        ELSE PyStr(Strip(Join(pieces, ParagraphBreak)))

NotesFirst(enriched) ==
    LET ocr_text == PyOr(RowGet(enriched, "ocr_text", PyNone),
                         PyOr(RowGet(enriched, "clean_text", PyNone),
                              RowGet(enriched, "raw_text", PyNone)))
    IN  PyStr(Strip(Join(Pieces(<<RowGet(enriched, "notes", PyNone),
                                  RowGet(enriched, "search_text", PyNone),
                                  ocr_text>>), ParagraphBreak)))

_build_search_text(enriched) ==
    LET st == RowGet(enriched, "search_text", PyNone)
        notes == RowGet(enriched, "notes", PyNone)
        ocr_text == PyOr(RowGet(enriched, "ocr_text", PyNone),
                         PyOr(RowGet(enriched, "clean_text", PyNone),
                              RowGet(enriched, "raw_text", PyNone)))
        Piece(v) == IF v.t = "str" /\ ~IsBlank(v.s) THEN <<Strip(v.s)>> ELSE <<>>
    IN  PyStr(Strip(Join(Piece(st) \o Piece(notes) \o Piece(ocr_text),
                         ParagraphBreak)))

\* len(v), v a str
PyLen(v) == PyInt(Len(v.s))

\* ocr_outputs.get(rel_path, {}) or {}
OcrRecordOf(row, outputs) ==
    LET rel_path == ToStr(RowGet(row, "file_path", PyNone))
    IN  IF rel_path \in DOMAIN outputs THEN outputs[rel_path] ELSE EmptyDict

\* ocr_record.get("clean_text") or ocr_record.get("raw_text") or ""
CleanTextOf(ocr_record) ==
    PyOr(RowGet(ocr_record, "clean_text", PyNone),
         PyOr(RowGet(ocr_record, "raw_text", PyNone), PyStr(<<>>)))

\* the three layers of one enriched page
EnrichLayers(row, outputs) ==
    [row |-> row, ocr |-> OcrRecordOf(row, outputs),
     ext |-> extract_page(CleanTextOf(OcrRecordOf(row, outputs)))]

\* one pass of the loop "for row in manifest_rows"
EnrichPage(row, outputs) ==
    LET rel_path == ToStr(RowGet(row, "file_path", PyNone))
        layers == EnrichLayers(row, outputs)
        ocr_record == layers.ocr
        clean_text == CleanTextOf(ocr_record)
        ext_result == layers.ext
        e0 == Merge(Merge(row, ocr_record), ext_result)
        e1 == SetDefault(e0, "file_path", PyStr(rel_path))
        e2 == SetDefault(e1, "sequence_id", RowGet(row, "sequence_id", PyNone))
        e3 == SetDefault(e2, "sequence_order",
                         RowGet(row, "sequence_order", PyNone))
        e4 == SetDefault(e3, "ocr_text",
                         PyOr(RowGet(e3, "ocr_text", PyNone), clean_text))
        e5 == SetDefault(e4, "ocr_text_length",
                         PyLen(PyOr(RowGet(e4, "ocr_text", PyStr(<<>>)),
                                    PyStr(<<>>))))
        e6 == IF "page_summary" \in DOMAIN e5 /\ "summary" \notin DOMAIN e5
              THEN Put(e5, "summary", e5["page_summary"]) ELSE e5
    IN  Put(e6, "search_text", _build_search_text(e6))

\* pages_by_file.get(fp): the last enriched page of that file_path
PageByFile(pages, fp) ==
    LET hits == {i \in 1..Len(pages) :
                    ToStr(RowGet(pages[i], "file_path", PyNone)) = fp}
    IN  IF hits = {} THEN EmptyDict
        ELSE pages[CHOOSE i \in hits : \A j \in hits : j <= i]

\* the texts of the member rows of one sequence, in sequence order
RECURSIVE SequenceTexts(_, _, _, _)
SequenceTexts(items, p, mrows, pages) ==
    IF p > Len(items) THEN <<>>
    ELSE LET fp == ToStr(RowGet(mrows[items[p]], "file_path", PyNone))
             page == PageByFile(pages, fp)
             ct == PyOr(RowGet(page, "clean_text", PyNone),
                        PyOr(RowGet(page, "ocr_text", PyNone),
                             PyOr(RowGet(page, "raw_text", PyNone),
                                  PyStr(<<>>))))
             rest == SequenceTexts(items, p + 1, mrows, pages)
         IN  IF DOMAIN page # {} /\ Truthy(ct)
             THEN <<ToStr(ct)>> \o rest ELSE rest

SummarizeAlways(entry, mrows, pages) ==
    LET texts == SequenceTexts(entry.items, 1, mrows, pages)
        seq_rec == Merge([sequence_id |-> PyStr(entry.key),
                          num_pages |-> PyInt(Len(entry.items))],
                         summarize_sequence(texts))
    IN  [called |-> TRUE,
         texts |-> texts,
         rec |-> SetDefault(seq_rec, "summary",
                            RowGet(seq_rec, "sequence_summary", PyStr(<<>>)))]

SummarizeCountsTexts(entry, mrows, pages) ==
    LET texts == SequenceTexts(entry.items, 1, mrows, pages)
        seq_meta == IF texts = <<>>
                    THEN [sequence_summary |-> PyStr(<<>>),
                          sequence_search_text |-> PyStr(<<>>)]
                    ELSE summarize_sequence(texts)
        seq_rec == Merge([sequence_id |-> PyStr(entry.key),
                          num_pages |-> PyInt(Len(texts))], seq_meta)
    IN  [called |-> texts # <<>>,
         texts |-> texts,
         rec |-> SetDefault(seq_rec, "summary",
                            RowGet(seq_rec, "sequence_summary", PyStr(<<>>)))]

\* one pass of the loop "for seq_id, rows in sequences_map.items()"
SummarizeOne(entry, mrows, pages) ==
    LET texts == SequenceTexts(entry.items, 1, mrows, pages)
        seq_meta == IF texts = <<>>
                    THEN [sequence_summary |-> PyStr(<<>>),
                          sequence_search_text |-> PyStr(<<>>)]
                    ELSE summarize_sequence(texts)
        seq_rec == Merge([sequence_id |-> PyStr(entry.key),
                          num_pages |-> PyInt(Len(entry.items))], seq_meta)
    IN  [called |-> texts # <<>>,
         texts |-> texts,
         rec |-> SetDefault(seq_rec, "summary",
                            RowGet(seq_rec, "sequence_summary", PyStr(<<>>)))]

(***************************************************************************)
(* JSON Lines: _write_jsonl (src/pipeline.py), write_jsonl and load_jsonl  *)
(* (tools/ocr_tools.py), _load_jsonl (src/search_index.py).  The two       *)
(* writers have the same body, and so have the two loaders.  Here a dict   *)
(* is a function from keys, which are sequences of characters, to values,  *)
(* and a file is the sequence of its characters.                           *)
(***************************************************************************)
\* a lone surrogate: a str can hold it, UTF-8 cannot encode it
LoneSurrogate == "<U+D800>"
\* a byte of a file that is no UTF-8
BadByte == "<0xFF>"

Quote == "\""
Backslash == "\\"

RECURSIVE Flatten(_)
Flatten(chunks) ==
    IF chunks = <<>> THEN <<>> ELSE Head(chunks) \o Flatten(Tail(chunks))

\* json.dump(rec, f, ensure_ascii=False): the chunks of text it hands to
\* f.write, one after the other
json_dump(rec) ==
    LET RECURSIVE Escaped(_)
        Escaped(cs) ==
            IF cs = <<>> THEN <<>>
            ELSE (CASE Head(cs) = Quote -> <<Backslash, Quote>>
                    [] Head(cs) = Backslash -> <<Backslash, Backslash>>
                    [] Head(cs) = "\n" -> <<Backslash, "n">>
                    [] Head(cs) = "\t" -> <<Backslash, "t">>
                    [] OTHER -> <<Head(cs)>>) \o Escaped(Tail(cs))
        EncodeString(cs) == <<Quote>> \o Escaped(cs) \o <<Quote>>
        EncodeValue(v) ==
            CASE v.t = "str" -> EncodeString(v.s)
              [] v.t = "int" -> IntToChars(v.n)
              [] v.t = "none" -> <<"n", "u", "l", "l">>
              [] v.t = "nan" -> <<"N", "a", "N">>
        \* the keys of the dict, in the order of its items
        keys == CHOOSE ks \in [1..Cardinality(DOMAIN rec) -> DOMAIN rec] :
                    \A i, j \in DOMAIN ks : i # j => ks[i] # ks[j]
        RECURSIVE Items(_)
        Items(i) ==
            IF i > Len(keys) THEN <<>>
            ELSE (IF i = 1 THEN <<>> ELSE <<(<<",", " ">>)>>)
                     \o <<EncodeString(keys[i]), <<":", " ">>,
                          EncodeValue(rec[keys[i]])>>
                     \o Items(i + 1)
    IN  IF DOMAIN rec = {} THEN <<(<<"{", "}">>)>>
        ELSE <<(<<"{">>)>> \o Items(1) \o <<(<<"}">>)>>

\* a file that does not exist, and the file of a text
NoJsonl == [exists |-> FALSE, text |-> <<>>]
JsonlFile(text) == [exists |-> TRUE, text |-> text]

\* with out_path.open("w", encoding="utf-8") as f:
\*     for rec in records: json.dump(rec, f, ensure_ascii=False); f.write("\n")
\* f.write raises UnicodeEncodeError on a chunk that UTF-8 cannot encode;
\* the chunks before it are in the file
_write_jsonl(recs) ==
    LET chunks == Flatten([i \in 1..Len(recs) |->
                              json_dump(recs[i]) \o <<(<<"\n">>)>>])
        bad == {i \in 1..Len(chunks) :
                   \E j \in 1..Len(chunks[i]) : chunks[i][j] = LoneSurrogate}
        good == IF bad = {} THEN Len(chunks)
                ELSE (CHOOSE i \in bad : \A j \in bad : i <= j) - 1
    IN  [raised |-> bad # {},
         file |-> JsonlFile(Flatten(SubSeq(chunks, 1, good)))]

\* json.loads(line): the value of a JSON text, or JSONDecodeError.  The
\* texts of the model have strings, integers, null, NaN and objects, the
\* escapes \" \\ \n \t, and no other escape.
json_loads(cs) ==
    LET n == Len(cs)
        Fail == [ok |-> FALSE, v |-> PyNone, p |-> 0]
        Ok(v, p) == [ok |-> TRUE, v |-> v, p |-> p]
        IsDigit(c) == \E d \in 1..10 : DigitChars[d] = c
        RECURSIVE SkipWs(_)
        SkipWs(p) ==
            IF p <= n /\ cs[p] \in Whitespace THEN SkipWs(p + 1) ELSE p
        RECURSIVE ScanString(_, _)
        ScanString(p, acc) ==
            IF p > n THEN Fail
            ELSE CASE cs[p] = Quote -> Ok(PyStr(acc), p + 1)
                   [] cs[p] = Backslash ->
                          IF p + 1 > n THEN Fail
                          ELSE CASE cs[p + 1] = Quote ->
                                        ScanString(p + 2, Append(acc, Quote))
                                 [] cs[p + 1] = Backslash ->
                                        ScanString(p + 2, Append(acc, Backslash))
                                 [] cs[p + 1] = "n" ->
                                        ScanString(p + 2, Append(acc, "\n"))
                                 [] cs[p + 1] = "t" ->
                                        ScanString(p + 2, Append(acc, "\t"))
                                 [] OTHER -> Fail
                   [] cs[p] \in {"\n", "\t"} -> Fail
                   [] OTHER -> ScanString(p + 1, Append(acc, cs[p]))
        Literal(p, word, v) ==
            IF p + Len(word) - 1 <= n
                   /\ SubSeq(cs, p, p + Len(word) - 1) = word
            THEN Ok(v, p + Len(word)) ELSE Fail
        RECURSIVE Digits(_)
        Digits(p) == IF p <= n /\ IsDigit(cs[p]) THEN Digits(p + 1) ELSE p
        Number(p) ==
            IF cs[p] = "0" /\ Digits(p) > p + 1 THEN Ok(PyInt(0), p + 1)
            ELSE Ok(PyInt(CharsToInt(SubSeq(cs, p, Digits(p) - 1))), Digits(p))
        RECURSIVE Value(_), Members(_, _)
        Value(p) ==
            IF p > n THEN Fail
            ELSE CASE cs[p] = Quote -> ScanString(p + 1, <<>>)
                   [] cs[p] = "n" -> Literal(p, <<"n", "u", "l", "l">>, PyNone)
                   [] cs[p] = "N" -> Literal(p, <<"N", "a", "N">>, PyNaN)
                   [] IsDigit(cs[p]) -> Number(p)
                   [] cs[p] = "{" ->
                          LET q == SkipWs(p + 1)
                          IN  IF q <= n /\ cs[q] = "}" THEN Ok(EmptyDict, q + 1)
                              ELSE Members(q, EmptyDict)
                   [] OTHER -> Fail
        \* the members of an object, from the quote of a key on
        Members(p, acc) ==
            IF p > n \/ cs[p] # Quote THEN Fail
            ELSE LET k == ScanString(p + 1, <<>>)
                     c == SkipWs(k.p)
                 IN  IF ~k.ok \/ c > n \/ cs[c] # ":" THEN Fail
                     ELSE LET val == Value(SkipWs(c + 1))
                              e == SkipWs(val.p)
                          IN  IF ~val.ok \/ e > n THEN Fail
                              ELSE CASE cs[e] = "}" ->
                                            Ok(Put(acc, k.v.s, val.v), e + 1)
                                     [] cs[e] = "," ->
                                            Members(SkipWs(e + 1),
                                                    Put(acc, k.v.s, val.v))
                                     [] OTHER -> Fail
        top == Value(SkipWs(1))
    IN  IF top.ok /\ SkipWs(top.p) = n + 1
        THEN [ok |-> TRUE, v |-> top.v] ELSE [ok |-> FALSE, v |-> PyNone]

\* "for line in f": the lines of a text, each up to its newline, and what
\* follows the last newline when that is not empty
SplitLines(cs) ==
    LET ends == {i \in 1..Len(cs) : cs[i] = "\n"}
        End(k) == CHOOSE i \in ends : Cardinality({j \in ends : j <= i}) = k
        Start(k) == IF k = 1 THEN 1 ELSE End(k - 1) + 1
        rest == SubSeq(cs, Start(Cardinality(ends) + 1), Len(cs))
    IN  [k \in 1..Cardinality(ends) |-> SubSeq(cs, Start(k), End(k) - 1)]
            \o (IF rest = <<>> THEN <<>> ELSE <<rest>>)

\* _load_jsonl and load_jsonl: no file, no records; a line is stripped,
\* skipped when empty, and skipped when json.loads raises JSONDecodeError.
\* The file is decoded as it is read: a byte that is no UTF-8 raises
\* UnicodeDecodeError, which nothing catches.
_load_jsonl(file) ==
    LET lines == SplitLines(file.text)
        RECURSIVE Records(_)
        Records(i) ==
            IF i > Len(lines) THEN <<>>
            ELSE LET line == Strip(lines[i])
                 IN  IF line = <<>> THEN Records(i + 1)
                     ELSE IF json_loads(line).ok
                          THEN <<json_loads(line).v>> \o Records(i + 1)
                          ELSE Records(i + 1)
    IN  IF ~file.exists THEN [raised |-> FALSE, records |-> <<>>]
        ELSE IF \E i \in 1..Len(file.text) : file.text[i] = BadByte
             THEN [raised |-> TRUE, records |-> <<>>]
             ELSE [raised |-> FALSE, records |-> Records(1)]

\* df = _build_page_dataframe(pages): the columns of df and its rows, for
\* pages of flat records without an entities list, whose search_text and
\* sequence_id are strings, null or missing
_build_page_dataframe(pages) ==
    LET file_path == <<"f", "i", "l", "e", "_", "p", "a", "t", "h">>
        category == <<"c", "a", "t", "e", "g", "o", "r", "y">>
        doc_type == <<"d", "o", "c", "_", "t", "y", "p", "e">>
        sequence_id == <<"s", "e", "q", "u", "e", "n", "c", "e", "_", "i", "d">>
        sequence_order == <<"s", "e", "q", "u", "e", "n", "c", "e", "_",
                            "o", "r", "d", "e", "r">>
        summary == <<"s", "u", "m", "m", "a", "r", "y">>
        page_summary == <<"p", "a", "g", "e", "_">> \o summary
        ocr_text == <<"o", "c", "r", "_", "t", "e", "x", "t">>
        search_text == <<"s", "e", "a", "r", "c", "h", "_", "t", "e", "x", "t">>
        has_text_col == <<"h", "a", "s", "_", "t", "e", "x", "t">>
        \* df = pd.json_normalize(pages): a column for every key, NaN where
        \* a record lacks it
        normalized == UNION {DOMAIN pages[i] : i \in 1..Len(pages)}
        Cell(i, col) ==
            IF col \in DOMAIN pages[i] THEN pages[i][col] ELSE PyNaN
        \* for col, default in [...]: if col not in df.columns: df[col] = None
        defaulted ==
            normalized \cup {file_path, category, doc_type, sequence_id,
                             sequence_order, summary, page_summary, ocr_text}
        Default(i, col) == IF col \in normalized THEN Cell(i, col) ELSE PyNone
        \* if "summary" not in df.columns and "page_summary" in df.columns
        summary_filled == summary \notin defaulted /\ page_summary \in defaulted
        \* elif "summary" in df.columns and "page_summary" not in df.columns
        page_summary_filled ==
            /\ ~summary_filled
            /\ summary \in defaulted /\ page_summary \notin defaulted
        aliased ==
            defaulted \cup (IF summary_filled THEN {summary} ELSE {})
                      \cup (IF page_summary_filled THEN {page_summary} ELSE {})
        Aliased(i, col) ==
            IF col = summary /\ summary_filled THEN Default(i, page_summary)
            ELSE IF col = page_summary /\ page_summary_filled
                 THEN Default(i, summary)
                 ELSE Default(i, col)
        StrPart(v) == IF v.t = "str" THEN <<v.s>> ELSE <<>>
        make_search_text(i) ==
            Join(StrPart(Aliased(i, summary)) \o StrPart(Aliased(i, ocr_text)),
                 <<" ">>)
        \* if "search_text" not in df.columns: df["search_text"] = df.apply(...)
        SearchText(i) ==
            IF search_text \in aliased THEN Aliased(i, search_text)
            ELSE PyStr(make_search_text(i))
        \* df["search_text"].fillna("").str.len() > 0
        HasText(i) ==
            [t |-> "bool", s |-> <<>>,
             n |-> IF SearchText(i).t = "str" /\ SearchText(i).s # <<>>
                   THEN 1 ELSE 0]
        Row(i) ==
            [col \in aliased \cup {search_text, has_text_col} |->
                CASE col = has_text_col -> HasText(i)
                  [] col = search_text -> SearchText(i)
                  \* df["sequence_id"].astype(str)
                  [] col = sequence_id -> PyStr(ToStr(Aliased(i, col)))
                  [] OTHER -> Aliased(i, col)]
    IN  IF pages = <<>> THEN [columns |-> {}, rows |-> <<>>]
        ELSE [columns |-> aliased \cup {search_text, has_text_col},
              rows |-> [i \in 1..Len(pages) |-> Row(i)]]

JsonlIdle ==
    /\ jrecords = <<>>
    /\ jsonl_file = NoJsonl
    /\ loaded = <<>>
    /\ page_df = _build_page_dataframe(<<>>)
    /\ jpc = "idle"

(***************************************************************************)
(* Inputs of group_sequences.                                              *)
(***************************************************************************)
PathA == PyStr(<<"a">>)
PathB == PyStr(<<"b">>)
\* an order beyond the sentinel of sort_key
BigOrder == 2 * Sentinel

FilePaths == {Absent, PathA, PathB}
SequenceIds == {PyNone, PyStr(<<" ">>), PyNaN, PyStr(<<"s">>)}
SequenceOrders == {Absent, PyNaN, PyStr(<<"x">>), PyInt(1), PyFloat(BigOrder)}

MkRow(fp, sid, ord) ==
    LET val == [k \in {"file_path", "sequence_id", "sequence_order"} |->
                   CASE k = "file_path" -> fp
                     [] k = "sequence_id" -> sid
                     [] k = "sequence_order" -> ord]
    IN  [k \in {k \in DOMAIN val : val[k] # Absent} |-> val[k]]

ManifestRows ==
    {MkRow(fp, sid, ord) : fp \in FilePaths, sid \in SequenceIds,
                           ord \in SequenceOrders}

\* the pages of one thread, in any order of their sequence_order
ThreadRows ==
    {MkRow(PathA, PyStr(<<"s">>), ord) :
        ord \in {PyNaN, PyInt(1), PyFloat(BigOrder)}}

SeqsUpTo(S, n) == UNION {[1..k -> S] : k \in 0..n}

NotCalled == <<[key |-> <<"?">>, items |-> <<>>]>>

(***************************************************************************)
(* Inputs of run_pipeline.                                                 *)
(***************************************************************************)
RequiredCols == {"file_path", "category", "doc_type"}
FullCols == RequiredCols \cup {"sequence_id"}

\* two of the three paths have the same cache file name
PagePaths == {<<"a">>, <<"a", "/", "b">>, <<"a", "_", "_", "b">>}
CachePaths == {<<"a">>, <<"a", "/", "b">>}
\* the columns of a manifest: all of them, or some required ones missing
ColumnSets ==
    {FullCols, {"sequence_id"}} \cup {FullCols \ {c} : c \in RequiredCols}
PageSequenceIds == {PyNaN, PyStr(<<"s">>)}

PageRow(cols, path, sid) ==
    LET full == [file_path |-> PyStr(path), category |-> PyStr(<<"X">>),
                 doc_type |-> PyStr(<<"Y">>), sequence_id |-> sid]
    IN  [k \in cols |-> full[k]]

\* the manifests of up to n pages of paths that have the same sequence_id
Manifests(cols, paths, sid, n) ==
    SeqsUpTo({PageRow(cols, path, sid) : path \in paths}, n)

\* a cache record beside the ones run_page makes: an empty error message
\* and text of whitespace only
EmptyErrorRecord ==
    [raw_text |-> PyStr(<<>>), clean_text |-> PyStr(<<" ">>),
     ocr_text |-> PyNone, error |-> PyStr(<<>>)]

CachedRecords ==
    {run_page(<<"a">>, o) : o \in OcrOutcomes} \cup {EmptyErrorRecord}

CacheContents ==
    {Unstatable, Unloadable, JsonArray}
        \cup {JsonObject(r) : r \in CachedRecords}

\* the cache files of the pages of a manifest
CacheFilesOf(m) ==
    IF \A i \in 1..Len(m) : "file_path" \in DOMAIN m[i]
    THEN {_cache_key_for_path(ToStr(m[i].file_path)) : i \in 1..Len(m)}
    ELSE {}

Caches(m, contents) ==
    UNION {[names -> contents] : names \in SUBSET CacheFilesOf(m)}

\* export_dir is TRUE when a directory is given, FALSE when it is None
Configs ==
    [cache_dir : {"none", "dir", "blocked"},
     use_ocr_cache : BOOLEAN, save_ocr_cache : BOOLEAN,
     export_dir : BOOLEAN, export_jsonl : BOOLEAN]

NoExport == [pages |-> [written |-> FALSE, lines |-> <<>>],
             seqs |-> [written |-> FALSE, lines |-> <<>>]]

ZeroCounts == [num_from_cache |-> 0, num_fresh_ocr |-> 0]

\* the locals of a run that has not started
LocalsInit ==
    /\ idx = 1
    /\ ocr_outputs = EmptyDict
    /\ counts = ZeroCounts
    /\ sequences_map = <<>>
    /\ enriched_pages = <<>>
    /\ sequence_summaries = <<>>
    /\ ocr_log = <<>>
    /\ enrich_log = <<>>
    /\ summary_log = <<>>
    /\ raised = "none"

GroupIdle == rows = <<>> /\ ordered = NotCalled /\ gpc = "idle"

\* an OCR agent whose images and backend can change from call to call
AnyAgent == [p \in PagePaths |-> OcrOutcomes]

\* the OCR agents that do the same on every call: every image is missing,
\* or the backend reads every page, or the backend fails on every page
SteadyAgents == {[p \in PagePaths |-> {o}] : o \in OcrOutcomes}

\* the history of a first run on the cache files
NoRun == [returned |-> FALSE, cfg |-> <<>>, ocr_log |-> <<>>,
          enriched_pages |-> <<>>, sequence_summaries |-> <<>>]
FirstRun(files) == [cache |-> files, earlier |-> NoRun]

PipelineIdle ==
    /\ manifest = <<>>
    /\ columns = FullCols
    /\ cfg = [cache_dir |-> "none", use_ocr_cache |-> FALSE,
              save_ocr_cache |-> FALSE, export_dir |-> FALSE,
              export_jsonl |-> FALSE]
    /\ ocr_agent = AnyAgent
    /\ disk = WriteOutcomes
    /\ cache = EmptyDict
    /\ history = FirstRun(EmptyDict)
    /\ exported = NoExport
    /\ pc = "idle"
    /\ LocalsInit

\* the runs of a threading agent of threads on manifests of pages of paths
\* whose rows have a sequence_id of sids, under a configuration of cfgs,
\* with a cache directory whose files hold contents, on one of disks
Runs(threads, paths, sids, colsets, cfgs, contents, disks) ==
    /\ enable_threads \in threads
    /\ columns \in colsets
    /\ \E sid \in sids :
           manifest \in Manifests(columns, paths, sid, MaxManifest)
    /\ cfg \in cfgs
    /\ cache \in (IF cfg.cache_dir = "dir" THEN Caches(manifest, contents)
                  ELSE {EmptyDict})
    /\ disk \in disks

\* the flags of a cache that is not there change nothing: the defaults
\* stand for them
CacheConfigs ==
    {c \in Configs :
        /\ c.cache_dir = "none" => c.use_ocr_cache /\ c.save_ocr_cache
        /\ c.export_jsonl /\ ~c.export_dir}

ExportConfigs ==
    {c \in Configs :
        /\ c.cache_dir \in {"none", "dir"}
        /\ c.use_ocr_cache /\ c.save_ocr_cache}

\* Every run starts from a manifest, a configuration and a cache
\* directory: pages of one thread without an export, over every state of
\* the cache on a disk that takes every write, or over a cache of bad
\* records on a disk where a write can fail; or every export setting over a
\* cache of good records, with threads on pages with and without a
\* sequence_id, or without threads.
Init ==
    /\ GroupIdle
    /\ JsonlIdle
    /\ \/ Runs({TRUE}, CachePaths, {PyStr(<<"s">>)}, {FullCols},
               CacheConfigs, CacheContents, {{"written"}})
       \/ Runs({TRUE}, CachePaths, {PyStr(<<"s">>)}, {FullCols},
               CacheConfigs, {JsonObject(EmptyErrorRecord)}, {WriteOutcomes})
       \/ Runs({TRUE}, PagePaths, PageSequenceIds, ColumnSets, ExportConfigs,
               {JsonObject(run_page(<<"a">>, "text"))}, {{"written"}})
       \/ Runs({FALSE}, PagePaths, {PyStr(<<"s">>)}, {FullCols},
               ExportConfigs, {JsonObject(run_page(<<"a">>, "text"))},
               {{"written"}})
    /\ ocr_agent = AnyAgent
    /\ history = FirstRun(cache)
    /\ exported = NoExport
    /\ pc = "start"
    /\ LocalsInit

(***************************************************************************)
(* run_pipeline, one action per step.                                      *)
(***************************************************************************)
\* what no step of run_pipeline changes: its arguments, and the state of
\* the other programs
inputs == <<enable_threads, gvars, jvars, manifest, columns, cfg, ocr_agent,
            disk, history>>

ChecksFilePathOnly(cols) ==
    SelectSeq(<<"file_path">>, LAMBDA c : c \notin cols)

\* missing = [c for c in required_cols if c not in manifest_df.columns]
_validate_manifest(cols) ==
    SelectSeq(<<"file_path", "category", "doc_type">>,
              LAMBDA c : c \notin cols)

StartValidatesFirst ==
    /\ pc = "start"
    /\ IF _validate_manifest(columns) # <<>>
       THEN pc' = "raised" /\ raised' = "ValueError: _validate_manifest"
       ELSE IF manifest = <<>>
            THEN pc' = "returned" /\ raised' = raised
            ELSE pc' = "ocr" /\ raised' = raised
    /\ UNCHANGED <<inputs, cache, exported, idx, ocr_outputs, counts,
                   sequences_map, enriched_pages, sequence_summaries, ocr_log,
                   enrich_log, summary_log>>

\* manifest_df.empty, then _validate_manifest
Start ==
    /\ pc = "start"
    /\ IF manifest = <<>>
       THEN pc' = "returned" /\ raised' = raised
       ELSE IF _validate_manifest(columns) # <<>>
            THEN pc' = "raised" /\ raised' = "ValueError: _validate_manifest"
            ELSE pc' = "ocr" /\ raised' = raised
    /\ UNCHANGED <<inputs, cache, exported, idx, ocr_outputs, counts,
                   sequences_map, enriched_pages, sequence_summaries, ocr_log,
                   enrich_log, summary_log>>

CacheReading == cfg.cache_dir # "none" /\ cfg.use_ocr_cache
SavesWithoutFlag == cfg.cache_dir # "none"

CacheSaving == cfg.cache_dir # "none" /\ cfg.save_ocr_cache

LoopEndsAfterOneRow(n) ==
    /\ idx' = idx + 1
    /\ pc' = "group"

\* the OCR loop moves to the next row, or ends
LoopNext(n) ==
    /\ idx' = idx + 1
    /\ pc' = IF idx < n THEN "ocr" ELSE "group"

\* history of one pass of the OCR loop: where the row's record came from,
\* how often run_page was called, the row's cache file as the pass found
\* it, what _load_ocr_from_cache returned, what run_page returned, whether
\* the pass wrote the row's cache file
LogEntry(source, calls, file, cached, fresh, saved) ==
    [source |-> source, calls |-> calls, file |-> file, cached |-> cached,
     fresh |-> fresh, saved |-> saved]

\* the row's record comes from the cache
OcrFromCache(rel_path, file, cached) ==
    /\ UsesCached(cached)
    /\ counts' = CountRow(counts, "cache")
    /\ ocr_outputs' = StoreRecord(ocr_outputs, rel_path, cached.rec)
    /\ ocr_log' = Append(ocr_log, LogEntry("cache", 0, file, cached, EmptyDict,
                                          FALSE))
    /\ LoopNext(Len(manifest))
    /\ UNCHANGED <<cache, raised>>

\* cache_file.exists() raises, outside the try block of
\* _load_ocr_from_cache
OcrCacheStatRaises(file) ==
    /\ CacheReading
    /\ file.kind = "unstatable"
    /\ pc' = "raised"
    /\ raised' = "OSError: cache_file.exists"
    /\ ocr_log' = Append(ocr_log, LogEntry("none", 0, file, LoadedNone,
                                          EmptyDict, FALSE))
    /\ UNCHANGED <<cache, idx, ocr_outputs, counts>>

\* cached.get(k) on a cached value that is no dict: AttributeError
OcrCachedNotADict(file, cached) ==
    /\ cached.kind = "array"
    /\ pc' = "raised"
    /\ raised' = "AttributeError: cached.get"
    /\ ocr_log' = Append(ocr_log, LogEntry("none", 0, file, cached, EmptyDict,
                                          FALSE))
    /\ UNCHANGED <<cache, idx, ocr_outputs, counts>>

\* cache miss or bad cache: ocr_agent.run_page, then _save_ocr_to_cache
OcrFresh(rel_path, file, cached) ==
    /\ cached.kind = "none" \/ (cached.kind = "object" /\ ~UsesCached(cached))
    /\ \E outcome \in ocr_agent[rel_path] :
        LET ocr_record == run_page(rel_path, outcome)
            Logged(saved) ==
                ocr_log' = Append(ocr_log, LogEntry("fresh", 1, file, cached,
                                                    ocr_record, saved))
        IN  /\ counts' = CountRow(counts, "fresh")
            /\ \/ /\ ~CacheSaving
                  /\ Logged(FALSE)
                  /\ cache' = cache
                  /\ ocr_outputs' = StoreRecord(ocr_outputs, rel_path, ocr_record)
                  /\ LoopNext(Len(manifest))
                  /\ raised' = raised
               \/ \* cache_dir.mkdir raises, outside the try block
                  /\ CacheSaving /\ cfg.cache_dir = "blocked"
                  /\ pc' = "raised"
                  /\ raised' = "OSError: cache_dir.mkdir"
                  /\ Logged(FALSE)
                  /\ UNCHANGED <<cache, idx, ocr_outputs>>
               \/ /\ CacheSaving /\ cfg.cache_dir = "dir"
                  /\ \E w \in disk :
                         /\ cache' = _save_ocr_to_cache(cache, rel_path,
                                                        ocr_record, w)
                         /\ Logged(w = "written")
                  /\ ocr_outputs' = StoreRecord(ocr_outputs, rel_path, ocr_record)
                  /\ LoopNext(Len(manifest))
                  /\ raised' = raised

NoFile == [kind |-> "no_file", rec |-> EmptyDict]

\* one pass of the loop "for idx, (_, row) in enumerate(manifest_df.iterrows())"
OcrRow ==
    /\ pc = "ocr"
    /\ LET rel_path == ToStr(manifest[idx].file_path)
           cache_file == _cache_key_for_path(rel_path)
           file == IF cache_file \in DOMAIN cache THEN cache[cache_file]
                   ELSE NoFile
           cached == IF CacheReading
                     THEN _load_ocr_from_cache(cache, rel_path)
                     ELSE LoadedNone
       IN  \/ OcrCacheStatRaises(file)
           \/ OcrFromCache(rel_path, file, cached)
           \/ OcrCachedNotADict(file, cached)
           \/ OcrFresh(rel_path, file, cached)
    /\ UNCHANGED <<inputs, exported, sequences_map, enriched_pages,
                   sequence_summaries, enrich_log, summary_log>>

\* sequences_map = threading_agent.group_sequences(manifest_rows)
Group ==
    /\ pc = "group"
    /\ sequences_map' = group_sequences(manifest, enable_threads)
    /\ pc' = "enrich"
    /\ UNCHANGED <<inputs, cache, exported, idx, ocr_outputs, counts,
                   enriched_pages, sequence_summaries, ocr_log, enrich_log,
                   summary_log, raised>>

\* the loop "for row in manifest_rows"
EnrichPages ==
    /\ pc = "enrich"
    /\ enriched_pages' =
           [i \in 1..Len(manifest) |-> EnrichPage(manifest[i], ocr_outputs)]
    /\ enrich_log' =
           [i \in 1..Len(manifest) |-> EnrichLayers(manifest[i], ocr_outputs)]
    /\ pc' = "summarize"
    /\ UNCHANGED <<inputs, cache, exported, idx, ocr_outputs, counts,
                   sequences_map, sequence_summaries, ocr_log, summary_log,
                   raised>>

\* the loop "for seq_id, rows in sequences_map.items()"
SummarizeSequences ==
    /\ pc = "summarize"
    /\ sequence_summaries' =
           [g \in 1..Len(sequences_map) |->
               SummarizeOne(sequences_map[g], manifest, enriched_pages).rec]
    /\ summary_log' =
           [g \in 1..Len(sequences_map) |->
               LET one == SummarizeOne(sequences_map[g], manifest,
                                       enriched_pages)
               IN  [calls |-> IF one.called THEN 1 ELSE 0,
                    texts |-> one.texts]]
    /\ pc' = "export"
    /\ UNCHANGED <<inputs, cache, exported, idx, ocr_outputs, counts,
                   sequences_map, enriched_pages, ocr_log, enrich_log, raised>>

\* _write_jsonl: what json.dump and json.loads make of the records
JsonLines(records) == [written |-> TRUE, lines |-> records]

\* the outcomes of the two calls of _write_jsonl, which catches nothing
ExportOutcomes == {"written", "pages_failed", "sequences_failed"}

ExportDirGiven == cfg.export_dir

\* export_dir is not None and export_jsonl
ExportRequested == cfg.export_dir /\ cfg.export_jsonl

\* the optional export, and the return
Export ==
    /\ pc = "export"
    /\ \/ /\ ~ExportRequested
          /\ pc' = "returned"
          /\ UNCHANGED <<exported, raised>>
       \/ /\ ExportRequested
          /\ \E outcome \in ExportOutcomes :
              CASE outcome = "written" ->
                       /\ exported' = [pages |-> JsonLines(enriched_pages),
                                       seqs |-> JsonLines(sequence_summaries)]
                       /\ pc' = "returned"
                       /\ raised' = raised
                [] outcome = "pages_failed" ->
                       /\ exported' = exported
                       /\ pc' = "raised"
                       /\ raised' = "OSError: _write_jsonl"
                [] outcome = "sequences_failed" ->
                       /\ exported' = [exported EXCEPT
                                          !.pages = JsonLines(enriched_pages)]
                       /\ pc' = "raised"
                       /\ raised' = "OSError: _write_jsonl"
    /\ UNCHANGED <<inputs, cache, idx, ocr_outputs, counts, sequences_map,
                   enriched_pages, sequence_summaries, ocr_log, enrich_log,
                   summary_log>>

Next == Start \/ OcrRow \/ Group \/ EnrichPages \/ SummarizeSequences \/ Export

Spec == Init /\ [][Next]_vars

(***************************************************************************)
(* Runs of run_pipeline on one page whose manifest row and cached OCR      *)
(* record have keys and texts of every kind: notes, text fields that are   *)
(* absent, null, empty or blank, and keys that another layer of the        *)
(* enriched page has too.                                                  *)
(***************************************************************************)
\* the dict of the entries of f that are there
DropAbsent(f) == [k \in {x \in DOMAIN f : f[x] # Absent} |-> f[k]]

EnrichRows ==
    {DropAbsent([file_path |-> PyStr(<<"a">>), category |-> PyStr(<<"X">>),
                 doc_type |-> PyStr(<<"Y">>), sequence_id |-> PyStr(<<"s">>),
                 notes |-> notes, engine |-> engine,
                 page_summary |-> page_summary]) :
        notes \in {Absent, PyNaN, PyStr(<<" ">>), PyStr(<<" ", "n">>)},
        engine \in {Absent, PyStr(<<"X">>)},
        page_summary \in {Absent, PyStr(<<"X">>)}}

EnrichRecords ==
    {DropAbsent([clean_text |-> clean_text, raw_text |-> raw_text,
                 ocr_text |-> ocr_text, error |-> error,
                 category |-> category, num_entities |-> num_entities]) :
        clean_text \in {Absent, PyStr(<<>>), PyStr(<<" ">>),
                        PyStr(<<"T", " ", "c">>)},
        raw_text \in {Absent, PyStr(<<>>), PyStr(<<"r">>)},
        ocr_text \in {Absent, PyNone, PyStr(<<" ">>), PyStr(<<"o", " ">>)},
        error \in {PyNone, BackendError},
        category \in {Absent, PyStr(<<"Z">>)},
        num_entities \in {Absent, PyInt(9)}}

EnrichInit ==
    /\ GroupIdle
    /\ JsonlIdle
    /\ enable_threads = TRUE
    /\ \E row \in EnrichRows :
           /\ manifest = <<row>>
           /\ columns = DOMAIN row
           /\ \E rec \in EnrichRecords :
                  cache = Put(EmptyDict,
                              _cache_key_for_path(ToStr(row.file_path)),
                              JsonObject(rec))
    /\ cfg = [cache_dir |-> "dir", use_ocr_cache |-> TRUE,
              save_ocr_cache |-> FALSE, export_dir |-> FALSE,
              export_jsonl |-> TRUE]
    /\ ocr_agent = AnyAgent
    /\ disk = WriteOutcomes
    /\ history = FirstRun(cache)
    /\ exported = NoExport
    /\ pc = "start"
    /\ LocalsInit

SpecEnrich == EnrichInit /\ [][Next]_vars

(***************************************************************************)
(* Runs of run_pipeline one after the other on the same manifest and the   *)
(* same cache directory, with an OCR agent that does the same on every     *)
(* call and a disk that does the same on every write of a run.  The flags  *)
(* of the cache and the state of the disk may change from run to run.      *)
(***************************************************************************)
RunConfigs ==
    {c \in Configs : c.cache_dir = "dir" /\ ~c.export_dir /\ c.export_jsonl}

RunsInit ==
    /\ GroupIdle
    /\ JsonlIdle
    /\ Runs({TRUE}, PagePaths, {PyStr(<<"s">>)}, {FullCols}, RunConfigs,
            {JsonObject(EmptyErrorRecord),
             JsonObject(run_page(<<"a">>, "not_found"))},
            {{w} : w \in WriteOutcomes})
    /\ ocr_agent \in SteadyAgents
    /\ history = FirstRun(cache)
    /\ exported = NoExport
    /\ pc = "start"
    /\ LocalsInit

\* the next call of run_pipeline: it finds the cache as the run before
\* left it
RunAgain ==
    /\ pc \in {"returned", "raised"}
    /\ cfg' \in RunConfigs
    /\ history' = [cache |-> cache,
                   earlier |-> [returned |-> pc = "returned", cfg |-> cfg,
                                ocr_log |-> ocr_log,
                                enriched_pages |-> enriched_pages,
                                sequence_summaries |-> sequence_summaries]]
    /\ pc' = "start"
    /\ idx' = 1
    /\ ocr_outputs' = EmptyDict
    /\ counts' = ZeroCounts
    /\ sequences_map' = <<>>
    /\ enriched_pages' = <<>>
    /\ sequence_summaries' = <<>>
    /\ ocr_log' = <<>>
    /\ enrich_log' = <<>>
    /\ summary_log' = <<>>
    /\ raised' = "none"
    /\ disk' \in {{w} : w \in WriteOutcomes}
    /\ UNCHANGED <<enable_threads, gvars, jvars, manifest, columns, ocr_agent,
                   cache, exported>>

RunsNext ==
    \/ Start \/ OcrRow \/ Group \/ EnrichPages \/ SummarizeSequences \/ Export
    \/ RunAgain

SpecRuns == RunsInit /\ [][RunsNext]_vars

(***************************************************************************)
(* One call of group_sequences on any list of rows.                        *)
(***************************************************************************)
GroupInit ==
    /\ rows \in SeqsUpTo(ManifestRows, MaxRows)
                    \cup SeqsUpTo(ThreadRows, MaxThreadRows)
    /\ enable_threads \in BOOLEAN
    /\ ordered = NotCalled
    /\ gpc = "ready"
    /\ PipelineIdle
    /\ JsonlIdle

GroupSequences ==
    /\ gpc = "ready"
    /\ ordered' = group_sequences(rows, enable_threads)
    /\ gpc' = "returned"
    /\ UNCHANGED <<rows, enable_threads, pvars, jvars>>

GroupNext == GroupSequences

SpecGroup == GroupInit /\ [][GroupNext]_vars

(***************************************************************************)
(* The JSONL writers and loaders: a list of records is written and the     *)
(* file loaded again, or a file that something else left is loaded.        *)
(***************************************************************************)
MaxRecords == 2
MaxLines == 3

\* the strings of the records: empty, blank, with the characters that JSON
\* escapes, with the ones it has a meaning for, and one that UTF-8 cannot
\* encode
JsonRecords ==
    LET JsonStrings ==
            {<<>>, <<"a">>, <<" ">>, <<Quote>>, <<Backslash>>, <<"\n">>,
             <<Backslash, "n">>, <<"a", Quote>>, <<"}", ",">>, <<"\t", "1">>,
             <<LoneSurrogate>>}
        JsonValues ==
            {PyStr(cs) : cs \in JsonStrings}
                \cup {PyInt(0), PyInt(12), PyNone}
        summary == <<"s", "u", "m", "m", "a", "r", "y">>
        page_summary == <<"p", "a", "g", "e", "_">> \o summary
        Page(keys) ==
            [k \in keys |-> IF k = <<"s", "e", "q", "u", "e", "n", "c", "e",
                                     "_", "i", "d">>
                            THEN PyNone ELSE PyStr(<<Head(k)>>)]
    IN  {EmptyDict}
            \cup {Put(EmptyDict, <<"a">>, v) : v \in JsonValues}
            \cup {Put(Put(EmptyDict, <<"a">>, PyInt(1)), <<"b", " ">>, v) :
                     v \in JsonValues}
            \* page records, with a summary, a page_summary, or both
            \cup {Page({page_summary, <<"o", "c", "r", "_", "t", "e", "x",
                                       "t">>}),
                  Page({summary}),
                  Page({summary, page_summary,
                        <<"s", "e", "a", "r", "c", "h", "_", "t", "e", "x",
                          "t">>}),
                  Page({page_summary,
                        <<"s", "e", "q", "u", "e", "n", "c", "e", "_", "i",
                          "d">>})}

\* the lines a file can hold, each with what it stands for: a record, a
\* malformed line, or a blank line
JsonlLines ==
    LET LineOf(text, kind, rec) == [text |-> text, kind |-> kind, rec |-> rec]
    IN
    {LineOf(Flatten(json_dump(rec)), "record", rec) :
        rec \in {EmptyDict, Put(EmptyDict, <<"a">>, PyInt(1)),
                 Put(EmptyDict, <<"b">>, PyStr(<<Quote, "}">>))}}
        \cup {LineOf(<<" ", "{", Quote, "a", Quote, ":", "1", "}", "\t">>,
                     "record", Put(EmptyDict, <<"a">>, PyInt(1))),
              LineOf(<<>>, "blank", EmptyDict),
              LineOf(<<" ", "\t">>, "blank", EmptyDict),
              LineOf(<<"{", Quote, "a", Quote, ":", " ", "1">>,
                     "malformed", EmptyDict),
              LineOf(<<"{", "}", "}">>, "malformed", EmptyDict),
              LineOf(<<"a">>, "malformed", EmptyDict),
              LineOf(<<"{", Quote, "a", Quote, ":", " ", Quote, BadByte,
                       Quote, "}">>, "malformed", EmptyDict)}

\* the text of a file of lines; the last line may lack its newline
RECURSIVE JoinLines(_, _)
JoinLines(ls, newline) ==
    IF ls = <<>> THEN <<>>
    ELSE ls[1].text
             \o (IF Len(ls) > 1 \/ newline THEN <<"\n">> ELSE <<>>)
             \o JoinLines(Tail(ls), newline)

\* the records of the lines that stand for one, in the order of the lines
RECURSIVE RecordsOf(_)
RecordsOf(ls) ==
    IF ls = <<>> THEN <<>>
    ELSE (IF ls[1].kind = "record" THEN <<ls[1].rec>> ELSE <<>>)
             \o RecordsOf(Tail(ls))

JsonlInit ==
    /\ GroupIdle /\ gpc = "idle" /\ enable_threads = TRUE
    /\ PipelineIdle
    /\ loaded = <<>>
    /\ page_df = _build_page_dataframe(<<>>)
    /\ \/ /\ jrecords \in SeqsUpTo(JsonRecords, MaxRecords)
          /\ jsonl_file = NoJsonl
          /\ jpc = "write"
       \/ /\ \E ls \in SeqsUpTo(JsonlLines, MaxLines), newline \in BOOLEAN :
                 /\ jsonl_file = JsonlFile(JoinLines(ls, newline))
                 /\ jrecords = RecordsOf(ls)
          /\ jpc = "load"
       \/ /\ jsonl_file = NoJsonl
          /\ jrecords = <<>>
          /\ jpc = "load"

\* a call of _write_jsonl
WriteJsonl ==
    /\ jpc = "write"
    /\ jsonl_file' = _write_jsonl(jrecords).file
    /\ jpc' = IF _write_jsonl(jrecords).raised THEN "write_raised" ELSE "reload"
    /\ UNCHANGED <<jrecords, loaded, page_df, enable_threads, gvars, pvars>>

\* a call of _load_jsonl, on a file just written or on another file
LoadJsonl ==
    /\ jpc \in {"load", "reload"}
    /\ loaded' = _load_jsonl(jsonl_file).records
    /\ jpc' = IF _load_jsonl(jsonl_file).raised THEN jpc \o "_raised"
              ELSE jpc \o "ed"
    /\ UNCHANGED <<jrecords, jsonl_file, page_df, enable_threads, gvars,
                   pvars>>

\* build_duckdb: page_df = _build_page_dataframe(pages), on the records
\* _load_jsonl returned
BuildPageDataframe ==
    /\ jpc \in {"loaded", "reloaded"}
    /\ page_df' = _build_page_dataframe(loaded)
    /\ jpc' = "built"
    /\ UNCHANGED <<jrecords, jsonl_file, loaded, enable_threads, gvars,
                   pvars>>

JsonlNext == WriteJsonl \/ LoadJsonl \/ BuildPageDataframe

SpecJsonl == JsonlInit /\ [][JsonlNext]_vars

(***************************************************************************)
(* Claims about group_sequences, checked under SpecGroup.                  *)
(***************************************************************************)
Returned == gpc = "returned"

\* the places <<g, p>> of the result that hold input row i
Places(i) ==
    {gp \in (1..Len(ordered)) \X (1..Len(rows)) :
        /\ gp[2] <= Len(ordered[gp[1]].items)
        /\ ordered[gp[1]].items[gp[2]] = i}

RECURSIVE TotalItems(_, _)
TotalItems(d, g) ==
    IF g > Len(d) THEN 0 ELSE Len(d[g].items) + TotalItems(d, g + 1)

\* C1: with threading enabled the result is a partition of the input: every
\* input row occurrence is at exactly one place of exactly one sequence, the
\* sequences hold only input rows and together as many rows as the input,
\* and no sequence_id names two sequences.
C1_Partition ==
    (Returned /\ enable_threads) =>
        /\ \A i \in 1..Len(rows) : Cardinality(Places(i)) = 1
        /\ \A g \in 1..Len(ordered) : \A p \in 1..Len(ordered[g].items) :
               ordered[g].items[p] \in 1..Len(rows)
        /\ TotalItems(ordered, 1) = Len(rows)
        /\ \A g, h \in 1..Len(ordered) : ordered[g].key = ordered[h].key => g = h

C1_Witness ==
    /\ Returned /\ enable_threads
    /\ Len(rows) = MaxRows
    /\ Len(ordered) = 1
    /\ ordered[1].items = <<2, 1>>

\* the claim's notion of a missing sequence_id
ClaimMissingId(row) ==
    LET v == RowGet(row, "sequence_id", PyNone)
    IN  \/ v.t = "none"
        \/ v.t = "nan"
        \/ v.t = "str" /\ \A i \in 1..Len(v.s) : v.s[i] \in Whitespace

GroupOf(i) == CHOOSE g \in 1..Len(ordered) : \E p \in 1..Len(ordered[g].items) :
                  ordered[g].items[p] = i

\* C2: with threading enabled a row whose sequence_id is None, blank or NaN
\* is filed under 'singleton::<file_path>', and two such rows with
\* different file_path values are never in the same sequence.
C2_Singleton ==
    (Returned /\ enable_threads) =>
        /\ \A i \in 1..Len(rows) :
               (ClaimMissingId(rows[i]) /\ "file_path" \in DOMAIN rows[i]) =>
                   \E g \in 1..Len(ordered) :
                       /\ ordered[g].key = SingletonPrefix \o rows[i].file_path.s
                       /\ \E p \in 1..Len(ordered[g].items) :
                              ordered[g].items[p] = i
        /\ \A i, j \in 1..Len(rows) :
               ( /\ ClaimMissingId(rows[i]) /\ ClaimMissingId(rows[j])
                 /\ "file_path" \in DOMAIN rows[i]
                 /\ "file_path" \in DOMAIN rows[j]
                 /\ rows[i].file_path # rows[j].file_path )
               => GroupOf(i) # GroupOf(j)

C2_Witness ==
    /\ Returned /\ enable_threads
    /\ Len(rows) = 2
    /\ RowGet(rows[1], "file_path", Absent) = PathA
    /\ RowGet(rows[1], "sequence_id", Absent) = PyStr(<<" ">>)
    /\ RowGet(rows[2], "file_path", Absent) = PathB
    /\ RowGet(rows[2], "sequence_id", Absent) = PyNaN
    /\ Len(ordered) = 2

\* the claim's notion of a sequence_order that parses as a number
ClaimValidOrder(row) ==
    LET v == RowGet(row, "sequence_order", PyNone)
    IN  \/ v.t \in {"int", "float"}
        \/ v.t = "str" /\ AllDigits(v.s)

ClaimOrderValue(row) ==
    LET v == RowGet(row, "sequence_order", PyNone)
    IN  IF v.t = "str" THEN CharsToInt(v.s) ELSE v.n

\* C3: in every sequence the rows with a numeric sequence_order are in
\* ascending order of it, and every row whose sequence_order is absent,
\* None, NaN or non-numeric comes after all rows with a numeric one.
C3_NumericFirstAscending ==
    (Returned /\ enable_threads) =>
        \A g \in 1..Len(ordered) :
            \A p, q \in 1..Len(ordered[g].items) :
                LET a == rows[ordered[g].items[p]]
                    b == rows[ordered[g].items[q]]
                IN  p < q =>
                        /\ (ClaimValidOrder(a) /\ ClaimValidOrder(b)) =>
                               ClaimOrderValue(a) <= ClaimOrderValue(b)
                        /\ ~(~ClaimValidOrder(a) /\ ClaimValidOrder(b))

\* both orders numeric and equal, or both absent, None or non-numeric
ClaimTie(a, b) ==
    LET IsNaN(r) == RowGet(r, "sequence_order", PyNone).t = "nan"
    IN  \/ /\ ClaimValidOrder(a) /\ ClaimValidOrder(b)
           /\ ClaimOrderValue(a) = ClaimOrderValue(b)
        \/ /\ ~ClaimValidOrder(a) /\ ~ClaimValidOrder(b)
           /\ ~IsNaN(a) /\ ~IsNaN(b)

\* C4: the sort within a sequence is stable: two rows of a sequence whose
\* sort keys tie are in the same relative order as in the input list.
C4_Stable ==
    (Returned /\ enable_threads) =>
        \A g \in 1..Len(ordered) :
            \A p, q \in 1..Len(ordered[g].items) :
                (p < q /\ ClaimTie(rows[ordered[g].items[p]],
                                   rows[ordered[g].items[q]]))
                => ordered[g].items[p] < ordered[g].items[q]

\* C5: with threading disabled the result holds one single-row sequence per
\* input row, keyed by the row's file_path, or by 'seq_<index>' when the
\* row has none, so there are as many sequences as input rows.
C5_OneSequencePerRow ==
    (Returned /\ ~enable_threads) =>
        /\ Len(ordered) = Len(rows)
        /\ \A i \in 1..Len(rows) :
               \E g \in 1..Len(ordered) :
                   /\ ordered[g].items = <<i>>
                   /\ ordered[g].key =
                          IF "file_path" \in DOMAIN rows[i]
                          THEN rows[i].file_path.s
                          ELSE SeqPrefix \o IntToChars(i - 1)

(***************************************************************************)
(* Claims about the OCR phase and the failures of run_pipeline, checked    *)
(* under Spec.                                                             *)
(***************************************************************************)
\* the claim's notion of text: non-whitespace content in one of the fields
ClaimHasText(rec) ==
    \E k \in {"clean_text", "raw_text", "ocr_text"} :
        /\ k \in DOMAIN rec
        /\ rec[k].t = "str"
        /\ \E i \in 1..Len(rec[k].s) : rec[k].s[i] \notin Whitespace

ErrorNonNull(rec) == RowGet(rec, "error", PyNone).t # "none"

\* the error is neither null nor empty, zero or false
ErrorTruthy(rec) ==
    LET err == RowGet(rec, "error", PyNone)
    IN  /\ err.t # "none"
        /\ ~(err.t = "str" /\ err.s = <<>>)
        /\ ~(err.t \in {"int", "float", "list"} /\ err.n = 0)

\* every cached record the OCR phase loaded is rejected if it is Bad, and
\* otherwise used as it is, without a call of the provider
LoadedRecordsRejectedIff(Bad(_)) ==
    \A i \in 1..Len(ocr_log) :
        LET e == ocr_log[i]
        IN  e.cached.kind = "object" =>
                IF Bad(e.cached.rec)
                THEN e.source = "fresh" /\ e.calls = 1
                ELSE e.source = "cache" /\ e.calls = 0

Passes(source) == {i \in 1..Len(ocr_log) : ocr_log[i].source = source}

C8_OnlyConfigErrorRaised ==
    pc = "raised" => raised = "ValueError: _validate_manifest"

\* C9: a failure while saving a cache entry, the creation of the cache
\* directory included, is ignored: the row's fresh record is stored and the
\* run goes on.
C9_SaveFailureIgnored ==
    \A i \in 1..Len(ocr_log) :
        (ocr_log[i].source = "fresh" /\ CacheSaving) =>
            /\ raised = "none"
            /\ ToStr(manifest[i].file_path) \in DOMAIN ocr_outputs

\* C10: a cache file that cannot be loaded as a record, whatever it holds,
\* is a cache miss: the run does not abort at it and the provider is
\* invoked for the row.
C10_LoadFailureIsMiss ==
    \A i \in 1..Len(ocr_log) :
        ( /\ CacheReading
          /\ ocr_log[i].file.kind \in {"unstatable", "unloadable", "array"} ) =>
            /\ ocr_log[i].source = "fresh"
            /\ ocr_log[i].calls = 1

(***************************************************************************)
(* Claims about the cache key, the validation of the manifest and the      *)
(* empty manifest, checked under Spec.                                     *)
(***************************************************************************)
RowKey(i) == _cache_key_for_path(ToStr(manifest[i].file_path))

\* the last pass before pass i that wrote the cache file of row i, or 0
LastWriter(i) ==
    LET ws == {j \in 1..(i - 1) : ocr_log[j].saved /\ RowKey(j) = RowKey(i)}
    IN  IF ws = {} THEN 0 ELSE CHOOSE j \in ws : \A k \in ws : k <= j

\* C11: distinct page paths have distinct cache file names, so no row is
\* served from the cache a record that was written for a different
\* file_path.
C11_OwnCacheFile ==
    \A i \in 1..Len(ocr_log) :
        /\ \A j \in 1..(i - 1) :
               manifest[j].file_path # manifest[i].file_path =>
                   RowKey(j) # RowKey(i)
        /\ (ocr_log[i].source = "cache" /\ LastWriter(i) # 0) =>
               manifest[LastWriter(i)].file_path = manifest[i].file_path

LacksColumns == RequiredCols \ columns # {}

\* no OCR pass, no grouping, no enrichment, no summary and no export yet
NothingDone ==
    /\ ocr_log = <<>> /\ ocr_outputs = EmptyDict /\ counts = ZeroCounts
    /\ sequences_map = <<>>
    /\ enrich_log = <<>> /\ enriched_pages = <<>>
    /\ summary_log = <<>> /\ sequence_summaries = <<>>
    /\ exported = NoExport

RaisedConfigError ==
    /\ pc = "raised"
    /\ raised = "ValueError: _validate_manifest"
    /\ {_validate_manifest(columns)[k] :
           k \in 1..Len(_validate_manifest(columns))} = RequiredCols \ columns

\* C12 as stated: run_pipeline raises the configuration error, naming the
\* missing columns, for every manifest that lacks a required column, before
\* any OCR call, cache access, enrichment call or export.
C12_RaisesForEveryManifest ==
    (pc # "start" /\ LacksColumns) => (RaisedConfigError /\ NothingDone)

\* C12 as amended: run_pipeline raises the configuration error, naming the
\* missing columns, for every manifest with at least one row that lacks a
\* required column, before any OCR call, cache access, enrichment call or
\* export; an empty manifest that lacks a required column returns without
\* raising.
C12_RaisesForNonEmptyManifest ==
    (pc # "start" /\ LacksColumns) =>
        /\ NothingDone
        /\ IF manifest = <<>>
           THEN pc = "returned" /\ raised = "none"
           ELSE RaisedConfigError

C12_Witness ==
    /\ pc = "raised"
    /\ Len(manifest) = MaxManifest
    /\ columns = FullCols \ {"doc_type"}
    /\ cfg.cache_dir = "dir" /\ cache # EmptyDict

\* C13: run_pipeline on an empty manifest returns ([], []) without raising,
\* and makes no OCR call, no enrichment call, no threading call and no
\* cache read or write.
C13_EmptyManifest ==
    (manifest = <<>> /\ pc # "start") =>
        /\ pc = "returned" /\ raised = "none"
        /\ enriched_pages = <<>> /\ sequence_summaries = <<>>
        /\ NothingDone

C13_Witness ==
    /\ manifest = <<>> /\ pc = "returned"
    /\ cfg.cache_dir = "dir" /\ ExportRequested

(***************************************************************************)
(* Claims about the records run_pipeline returns.                          *)
(***************************************************************************)
HasString(rec, k) == k \in DOMAIN rec /\ rec[k].t = "str"

\* C14: every enriched page and every sequence summary that run_pipeline
\* returns has a sequence_id that is a string, whatever the manifest's
\* sequence_id is.
C14_StringSequenceId ==
    pc = "returned" =>
        /\ \A i \in 1..Len(enriched_pages) :
               HasString(enriched_pages[i], "sequence_id")
        /\ \A g \in 1..Len(sequence_summaries) :
               HasString(sequence_summaries[g], "sequence_id")

(***************************************************************************)
(* Claims about the enriched pages, checked under SpecEnrich.              *)
(***************************************************************************)
Enriched == pc \in {"summarize", "export", "returned"}

\* the layers logged for page i are the manifest row, the OCR record
\* stored under its file_path, and a result of the enrichment provider
LayersOf(i) ==
    /\ enrich_log[i].row = manifest[i]
    /\ enrich_log[i].ocr = ocr_outputs[ToStr(manifest[i].file_path)]
    /\ {"page_summary", "entities", "num_entities", "search_text"}
           \subseteq DOMAIN enrich_log[i].ext

\* C15: for every key of the manifest row, the OCR record or the enrichment
\* result other than search_text, the enriched page has the key, with the
\* value of the highest layer that has it: enrichment over OCR over
\* manifest.
C15_MergePrecedence ==
    Enriched =>
        /\ Len(enriched_pages) = Len(manifest)
        /\ \A i \in 1..Len(enriched_pages) :
               LET L == enrich_log[i]
                   page == enriched_pages[i]
               IN  /\ LayersOf(i)
                   /\ \A k \in (DOMAIN L.row \cup DOMAIN L.ocr \cup DOMAIN L.ext)
                                   \ {"search_text"} :
                          /\ k \in DOMAIN page
                          /\ page[k] = IF k \in DOMAIN L.ext THEN L.ext[k]
                                       ELSE IF k \in DOMAIN L.ocr THEN L.ocr[k]
                                       ELSE L.row[k]

\* a page whose layers collide pairwise: the row and the OCR record on
\* category, the row and the enrichment on page_summary, the OCR record and
\* the enrichment on num_entities
C15_Witness ==
    /\ pc = "returned" /\ Len(enriched_pages) = 1
    /\ {"category", "page_summary"} \subseteq DOMAIN enrich_log[1].row
    /\ {"category", "num_entities"} \subseteq DOMAIN enrich_log[1].ocr
    /\ enrich_log[1].ocr["category"] # enrich_log[1].row["category"]
    /\ enrich_log[1].ocr["num_entities"] # enrich_log[1].ext["num_entities"]
    /\ enrich_log[1].row["page_summary"] # enrich_log[1].ext["page_summary"]

\* v is absent, null, no string, or a string of whitespace only
BlankValue(v) == v.t # "str" \/ \A j \in 1..Len(v.s) : v.s[j] \in Whitespace

\* the value of key k in layer rec, or None
Field(rec, k) == IF k \in DOMAIN rec THEN rec[k] ELSE PyNone

OcrTextFields == <<"ocr_text", "clean_text", "raw_text">>

\* C16: every enriched page has a search_text that is a string, and it is
\* the empty string when the enrichment's search_text, the manifest's
\* notes and all OCR text fields are absent or blank.
C16_SearchTextPopulated ==
    Enriched =>
        \A i \in 1..Len(enriched_pages) :
            LET L == enrich_log[i]
            IN  /\ HasString(enriched_pages[i], "search_text")
                /\ ( /\ BlankValue(Field(L.ext, "search_text"))
                     /\ BlankValue(Field(L.row, "notes"))
                     /\ \A j \in 1..3 : BlankValue(Field(L.ocr, OcrTextFields[j])) )
                   => enriched_pages[i].search_text = PyStr(<<>>)

\* a page without any text whose notes and OCR text are blank, not empty
C16_Witness ==
    /\ pc = "returned" /\ Len(enriched_pages) = 1
    /\ enriched_pages[1].search_text = PyStr(<<>>)
    /\ Field(enrich_log[1].row, "notes") = PyStr(<<" ">>)
    /\ Field(enrich_log[1].ocr, "ocr_text") = PyStr(<<" ">>)
    /\ Field(enrich_log[1].ocr, "clean_text") = PyStr(<<" ">>)

\* v stripped, the empty text if v is no string
Trimmed(v) == IF v.t = "str" THEN Strip(v.s) ELSE <<>>

\* the first of the OCR text fields of rec that is Usable, or None
FirstOcrText(rec, Usable(_)) ==
    LET hits == {j \in 1..3 : Usable(Field(rec, OcrTextFields[j]))}
    IN  IF hits = {} THEN PyNone
        ELSE Field(rec, OcrTextFields[CHOOSE j \in hits : \A h \in hits : j <= h])

\* every search_text is made of the enrichment's search_text, the
\* manifest's notes and the OCR text, the first Usable OCR text field:
\* those that are not empty once trimmed, in that order, joined by a blank
\* line
SearchTextMadeOf(Usable(_)) ==
    Enriched =>
        \A i \in 1..Len(enriched_pages) :
            LET L == enrich_log[i]
                items == <<Trimmed(Field(L.ext, "search_text")),
                           Trimmed(Field(L.row, "notes")),
                           Trimmed(FirstOcrText(L.ocr, Usable))>>
            IN  enriched_pages[i].search_text =
                    PyStr(Join(SelectSeq(items, LAMBDA t : t # <<>>),
                               ParagraphBreak))

\* C17 as stated: search_text is the non-empty items among the enrichment's
\* search_text, the manifest's notes and the OCR text, each trimmed, in
\* that order, joined by a blank line, the OCR text being the first of
\* ocr_text, clean_text, raw_text that has non-whitespace content.
C17_FirstNonBlankOcrText == SearchTextMadeOf(LAMBDA v : ~BlankValue(v))

\* C17 as amended: the same, the OCR text being the first of ocr_text,
\* clean_text, raw_text that is not null and not empty, which adds nothing
\* when it is whitespace only.
C17_FirstNonEmptyOcrText == SearchTextMadeOf(LAMBDA v : Truthy(v))

\* the page where the two differ: ocr_text is blank, clean_text is not
C17_Witness ==
    /\ pc = "returned" /\ Len(enriched_pages) = 1
    /\ Field(enrich_log[1].ocr, "ocr_text") = PyStr(<<" ">>)
    /\ Field(enrich_log[1].ocr, "clean_text") = PyStr(<<"T", " ", "c">>)
    /\ Field(enrich_log[1].row, "notes") = PyStr(<<" ", "n">>)
    /\ enriched_pages[1].search_text =
           PyStr(<<"T", " ", "c", "\n", "\n", "n">>)

(***************************************************************************)
(* Claims about the sequence summaries, checked under Spec.                *)
(***************************************************************************)
\* the summaries are made: the run is at the export, or past it
Summarized ==
    \/ pc \in {"export", "returned"}
    \/ pc = "raised" /\ raised = "OSError: _write_jsonl"

\* the resolved text of a page: clean_text, else ocr_text, else raw_text
ResolvedText(page) ==
    LET order == <<"clean_text", "ocr_text", "raw_text">>
        hits == {j \in 1..3 : Truthy(Field(page, order[j]))}
    IN  IF hits = {} THEN <<>>
        ELSE ToStr(Field(page, order[CHOOSE j \in hits : \A h \in hits : j <= h]))

\* the non-empty resolved texts of the member rows items[p..], in order
RECURSIVE MemberTexts(_, _)
MemberTexts(items, p) ==
    IF p > Len(items) THEN <<>>
    ELSE (IF ResolvedText(enriched_pages[items[p]]) = <<>> THEN <<>>
          ELSE <<ResolvedText(enriched_pages[items[p]])>>)
             \o MemberTexts(items, p + 1)

\* C18: for each sequence summarize_sequence is called exactly once, with
\* the non-empty resolved texts of the member rows in sequence order, if
\* there is such a text; otherwise it is not called, and sequence_summary
\* and sequence_search_text are both the empty string.
C18_SummarizeOncePerSequence ==
    Summarized =>
        /\ Len(summary_log) = Len(sequences_map)
        /\ Len(sequence_summaries) = Len(sequences_map)
        /\ \A g \in 1..Len(sequences_map) :
               LET texts == MemberTexts(sequences_map[g].items, 1)
               IN  /\ summary_log[g].texts = texts
                   /\ summary_log[g].calls = IF texts = <<>> THEN 0 ELSE 1
                   /\ texts = <<>> =>
                          /\ sequence_summaries[g].sequence_summary = PyStr(<<>>)
                          /\ sequence_summaries[g].sequence_search_text
                                 = PyStr(<<>>)

\* a run with a thread of two pages of which only the second has text, and
\* a run with a sequence whose pages have none
C18_Witness ==
    /\ pc = "returned"
    /\ Len(manifest) = 2
    /\ \/ /\ Len(sequences_map) = 1
          /\ summary_log[1].calls = 1
          /\ Len(summary_log[1].texts) = 1
          /\ ResolvedText(enriched_pages[sequences_map[1].items[1]]) = <<>>
       \/ /\ Len(sequences_map) = 2
          /\ summary_log[1].calls = 0
          /\ summary_log[2].calls = 1

\* C19: every sequence summary has num_pages equal to the number of member
\* rows of its sequence in the grouping, whatever the number of rows with
\* text, and a summary equal to sequence_summary when the provider's result
\* has no summary.
C19_NumPages ==
    Summarized =>
        /\ Len(sequence_summaries) = Len(sequences_map)
        /\ \A g \in 1..Len(sequences_map) :
               LET rec == sequence_summaries[g]
               IN  /\ rec.sequence_id = PyStr(sequences_map[g].key)
                   /\ rec.num_pages = PyInt(Len(sequences_map[g].items))
                   /\ "summary" \in DOMAIN rec
                   /\ rec.summary = rec.sequence_summary

\* a sequence of two pages of which one has text
C19_Witness ==
    /\ pc = "returned"
    /\ Len(sequences_map) = 1
    /\ sequence_summaries[1].num_pages = PyInt(2)
    /\ Len(summary_log[1].texts) = 1

\* pass i of the OCR loop called the provider and got a record with an error
OcrFailed(i) ==
    /\ ocr_log[i].source = "fresh"
    /\ Truthy(Field(ocr_log[i].fresh, "error"))

\* the sequences that hold row i
SequencesOf(i) ==
    {g \in 1..Len(sequences_map) :
        \E p \in 1..Len(sequences_map[g].items) :
            sequences_map[g].items[p] = i}

\* C20: when the provider returns a record with an error for a row, the
\* run is not aborted: the row has its enriched page, with the OCR error in
\* its error field, and is counted in the summary of its sequence.
C20_OcrErrorDoesNotAbort ==
    \A i \in 1..Len(ocr_log) :
        OcrFailed(i) =>
            /\ pc # "raised"
            /\ Enriched =>
                   /\ Len(enriched_pages) = Len(manifest)
                   /\ Field(enriched_pages[i], "error")
                          = ocr_log[i].fresh.error
            /\ Summarized =>
                   /\ Cardinality(SequencesOf(i)) = 1
                   /\ \A g \in SequencesOf(i) :
                          sequence_summaries[g].num_pages
                              = PyInt(Len(sequences_map[g].items))

(***************************************************************************)
(* Claims about the order of the phases of a run, checked under Spec.      *)
(***************************************************************************)
\* the OCR phase has stored a record for every row of the manifest
AllOcrDone ==
    /\ Len(ocr_log) = Len(manifest)
    /\ \A i \in 1..Len(manifest) :
           ToStr(manifest[i].file_path) \in DOMAIN ocr_outputs

\* the phases of run_pipeline, in the order of the code
PhaseOf(p) ==
    CASE p = "start" -> 0
      [] p = "ocr" -> 1
      [] p = "group" -> 2
      [] p = "enrich" -> 3
      [] p = "summarize" -> 4
      [] p = "export" -> 5
      [] OTHER -> 6

\* C21: the phases of a run are strictly ordered: every row has its OCR
\* record before grouping and enrichment start, every enriched page is
\* merged from the record the OCR phase stored, a sequence summary is made
\* only when the enriched pages of all its member rows exist, and while a
\* phase runs the outputs of the later phases are still empty.
C21_PhasesOrdered ==
    /\ (pc \in {"group", "enrich"} \/ sequences_map # <<>>
            \/ enriched_pages # <<>>) => AllOcrDone
    /\ \A i \in 1..Len(enrich_log) :
           /\ sequences_map # <<>>
           /\ enrich_log[i].ocr = ocr_outputs[ToStr(manifest[i].file_path)]
    /\ \A g \in 1..Len(sequence_summaries) :
           /\ g <= Len(sequences_map)
           /\ \A p \in 1..Len(sequences_map[g].items) :
                  sequences_map[g].items[p] \in 1..Len(enriched_pages)
    /\ PhaseOf(pc) <= 2 => sequences_map = <<>>
    /\ PhaseOf(pc) <= 3 => enriched_pages = <<>>
    /\ PhaseOf(pc) <= 4 => sequence_summaries = <<>>
    /\ PhaseOf(pc) <= 5 => exported = NoExport

C21_Witness ==
    /\ pc = "returned"
    /\ Len(manifest) = 2
    /\ manifest[1].file_path # manifest[2].file_path
    /\ ocr_log[1].source = "fresh"
    /\ ocr_log[2].source = "cache"
    /\ Len(sequence_summaries) = 2
    /\ exported.seqs.written

(***************************************************************************)
(* Claims about the JSONL writers and loaders, checked under SpecJsonl.    *)
(***************************************************************************)
\* C22: a list of records that is written with the JSONL writer and loaded
\* again with the JSONL loader comes back as a list of the same length
\* whose i-th record has the keys and the values of the i-th written one.
C22_RoundTrip ==
    /\ jpc \notin {"write_raised", "reload_raised"}
    /\ jpc = "reloaded" =>
           /\ Len(loaded) = Len(jrecords)
           /\ \A i \in 1..Len(jrecords) :
                  /\ DOMAIN loaded[i] = DOMAIN jrecords[i]
                  /\ \A k \in DOMAIN jrecords[i] :
                         loaded[i][k] = jrecords[i][k]

\* the records hold no string that UTF-8 cannot encode
Encodable ==
    \A i \in 1..Len(jrecords) : \A k \in DOMAIN jrecords[i] :
        \A j \in 1..Len(jrecords[i][k].s) : jrecords[i][k].s[j] # LoneSurrogate

\* what holds of C22: the round trip of records that UTF-8 can encode
C22_RoundTripOfEncodable ==
    Encodable => C22_RoundTrip

C22_Witness ==
    /\ jpc = "reloaded"
    /\ Len(jrecords) = 2
    /\ jrecords[1] = EmptyDict
    /\ <<"b", " ">> \in DOMAIN jrecords[2]
    /\ jrecords[2][<<"b", " ">>] = PyStr(<<Backslash, "n">>)

\* C23: the loader skips each malformed line by itself and returns the
\* records of the well-formed lines in the order of the file; no line makes
\* it raise; a file that is not there gives the empty list.
C23_MalformedLinesSkipped ==
    /\ jpc # "load_raised"
    /\ jpc = "loaded" => loaded = jrecords

\* the file holds no byte that is no UTF-8
Decodable ==
    \A i \in 1..Len(jsonl_file.text) : jsonl_file.text[i] # BadByte

\* what holds of C23: the loading of a file that is UTF-8
C23_DecodableLinesSkipped ==
    Decodable => C23_MalformedLinesSkipped

C23_Witness ==
    /\ jpc = "loaded"
    /\ jsonl_file.exists
    /\ Len(SplitLines(jsonl_file.text)) = 3
    /\ Len(loaded) = 2
    /\ SplitLines(jsonl_file.text)[2] = <<"{", "}", "}">>

(***************************************************************************)
(* Claims about the export, checked under Spec.                            *)
(***************************************************************************)
\* the run wrote both files, each with the returned records as its lines
BothWritten ==
    /\ exported.pages = [written |-> TRUE, lines |-> enriched_pages]
    /\ exported.seqs = [written |-> TRUE, lines |-> sequence_summaries]

\* C24 as stated: a run that returns has written pages.jsonl and
\* sequences.jsonl if and only if export_dir was given and export_jsonl
\* was true, and then each file holds the returned records, one per line,
\* in the order of the returned list.
C24_ExportedIffRequested ==
    pc = "returned" =>
        IF cfg.export_dir /\ cfg.export_jsonl THEN BothWritten
        ELSE exported = NoExport

\* C24, amended: the same for a run on a manifest that has rows; a run on
\* an empty manifest returns two empty lists and writes no file, whether
\* or not the export was requested.
C24_ExportedIffRequestedAndRows ==
    pc = "returned" =>
        /\ manifest = <<>> =>
               /\ exported = NoExport
               /\ enriched_pages = <<>> /\ sequence_summaries = <<>>
        /\ manifest # <<>> =>
               IF cfg.export_dir /\ cfg.export_jsonl THEN BothWritten
               ELSE exported = NoExport

C24_Witness ==
    /\ pc = "returned"
    /\ cfg.export_dir /\ cfg.export_jsonl
    /\ Len(manifest) = 2
    /\ Len(exported.pages.lines) = 2
    /\ Len(exported.seqs.lines) = 2
    /\ exported.pages.lines[2].file_path = manifest[2].file_path

(***************************************************************************)
(* Claims about runs that follow one another on the same cache, checked    *)
(* under SpecRuns.                                                         *)
(***************************************************************************)
\* In every run, a pass of the OCR loop that reads the cache and finds the
\* row's cache file holding a record that is Bad invokes the provider and
\* stores its record for the row; with saving enabled, and when Kept says
\* so, the pass leaves the fresh record in the row's cache file.
BadEntriesReplaced(Bad(_), Kept(_)) ==
    \A i \in 1..Len(ocr_log) :
        LET e == ocr_log[i]
        IN  (CacheReading /\ e.file.kind = "object" /\ Bad(e.file.rec)) =>
                /\ e.source = "fresh" /\ e.calls = 1
                /\ counts.num_fresh_ocr >= 1
                /\ (CacheSaving /\ Kept(e)) =>
                       /\ e.saved
                       /\ i = Len(ocr_log) =>
                              /\ ocr_outputs[ToStr(manifest[i].file_path)] = e.fresh
                              /\ cache[RowKey(i)] = JsonObject(e.fresh)

C26_RowsIndependent ==
    LET FileAtStart(i) ==
            IF RowKey(i) \in DOMAIN history.cache
            THEN history.cache[RowKey(i)] ELSE NoFile
    IN  (\A i, j \in 1..Len(manifest) :
             i # j => manifest[i].file_path # manifest[j].file_path) =>
            \A i \in 1..Len(ocr_log) :
                /\ ocr_log[i].file = FileAtStart(i)
                /\ pc \in {"group", "enrich", "summarize", "export",
                           "returned"} =>
                       \/ /\ RowKey(i) \notin DOMAIN cache
                          /\ FileAtStart(i) = NoFile
                       \/ /\ RowKey(i) \in DOMAIN cache
                          /\ cache[RowKey(i)] \in
                                 {FileAtStart(i), Unloadable,
                                  JsonObject(ocr_log[i].fresh)}


\* C27: the cache flags gate all cache access.  With use_ocr_cache false
\* no pass of the OCR loop reads a cache entry and the provider is called
\* once for every row; with save_ocr_cache false, or without a cache
\* directory, the cache files are as they were when the run started.
C27_FlagsGateCache ==
    /\ ~cfg.use_ocr_cache =>
           /\ \A i \in 1..Len(ocr_log) :
                  /\ ocr_log[i].source = "fresh"
                  /\ ocr_log[i].calls = 1
                  /\ ocr_log[i].cached = LoadedNone
           /\ counts.num_from_cache = 0
           /\ counts.num_fresh_ocr = Len(ocr_log)
           /\ pc \in {"group", "enrich", "summarize", "export", "returned"} =>
                  Len(ocr_log) = Len(manifest)
    /\ (~cfg.save_ocr_cache \/ cfg.cache_dir = "none") =>
           cache = history.cache

\* a run that neither reads nor saves has called the provider for a row
\* whose cache file holds a good record, and has left the file alone
C27_Witness ==
    /\ pc = "returned"
    /\ cfg.cache_dir = "dir" /\ ~cfg.use_ocr_cache /\ ~cfg.save_ocr_cache
    /\ Len(ocr_log) = 2
    /\ ocr_log[1].file = JsonObject(run_page(<<"a">>, "fallback"))
    /\ ocr_log[1].source = "fresh"
    /\ ocr_log[1].fresh # ocr_log[1].file.rec
    /\ cache[RowKey(1)] = ocr_log[1].file


\* C28: a run that returns has made one EnrichedPage per manifest row, in
\* manifest order, and one SequenceSummary per sequence of the grouping,
\* and the num_pages of the summaries sum to the number of rows.
C28_OnePagePerRow ==
    LET RECURSIVE NumPages(_)
        NumPages(g) ==
            IF g = 0 THEN 0
            ELSE sequence_summaries[g].num_pages.n + NumPages(g - 1)
    IN  pc = "returned" =>
            /\ Len(enriched_pages) = Len(manifest)
            /\ \A i \in 1..Len(manifest) :
                   enriched_pages[i].file_path = manifest[i].file_path
            /\ manifest # <<>> =>
                   Len(sequence_summaries) = Len(sequences_map)
            /\ NumPages(Len(sequence_summaries)) = Len(manifest)


\* C29: with an OCR provider that does the same on every call and the same
\* manifest, a run whose OCR records all come from the cache returns the
\* enriched pages and sequence summaries of the run before it, when that
\* run produced every record afresh and saved it.
C29_CachedRunSameOutputs ==
    (/\ pc = "returned"
     /\ manifest # <<>>
     /\ history.earlier.returned
     /\ \A i \in 1..Len(ocr_log) : ocr_log[i].source = "cache"
     /\ \A i \in 1..Len(history.earlier.ocr_log) :
            /\ history.earlier.ocr_log[i].source = "fresh"
            /\ history.earlier.ocr_log[i].saved) =>
        /\ enriched_pages = history.earlier.enriched_pages
        /\ sequence_summaries = history.earlier.sequence_summaries


\* C30: when every page record has a page_summary field and none has a
\* summary field, the summary column of the page table holds each page's
\* page_summary, and the other way round when the records have summary
\* only.
C30_SummaryAliased ==
    LET summary == <<"s", "u", "m", "m", "a", "r", "y">>
        page_summary == <<"p", "a", "g", "e", "_">> \o summary
        Only(have, lack) ==
            \A i \in 1..Len(loaded) :
                have \in DOMAIN loaded[i] /\ lack \notin DOMAIN loaded[i]
        Filled(from, to) ==
            \A i \in 1..Len(loaded) : page_df.rows[i][to] = loaded[i][from]
    IN  (jpc = "built" /\ loaded # <<>>) =>
            /\ Only(page_summary, summary) => Filled(page_summary, summary)
            /\ Only(summary, page_summary) => Filled(summary, page_summary)

====
